---- MODULE Spec2Model ----
(***************************************************************************)
(* Runtime lifecycle and callback-scope subsystem of node (src/node.cc,    *)
(* src/node_internals.h): the async-id stack and InternalCallbackScope,    *)
(* InternalMakeCallback, ThreadPoolWork, and the per-isolate Start().      *)
(***************************************************************************)
EXTENDS Integers, Sequences, FiniteSets, TLC

(* ------------------------------ bounds --------------------------------- *)
\* Deepest nesting of live InternalCallbackScope objects that is explored.
MaxDepth == 2
\* Async ids handed to scopes and to manual pops are 0..MaxAsyncId.
MaxAsyncId == 1
\* Number of ThreadPoolWork units.
MaxUnits == 2
\* Times one unit is scheduled (a unit may be scheduled again once its
\* completion has been delivered).
MaxSchedules == 1
\* Times referenced work may be found on the event loop after it ran, during
\* one run of Start (left by a stopped uv_run, by platform tasks or by hooks).
MaxArms == 2
\* Most async-id pairs a failed bootstrapper leaves on the stack.
MaxLeftover == 2
\* Number of distinct cleanup hooks an embedder registers.
MaxHooks == 3
\* Number of RunCleanup() calls made on one Environment before it is freed.
MaxCleanups == 2
\* Number of threads that call Start(event_loop, ...).
MaxThreads == 2
\* Number of Start(event_loop, ...) calls one thread makes.
MaxStarts == 2
\* Listeners registered for one event name.
MaxListeners == 2
\* Length of the array passed to setgroups.
MaxGroups == 1
\* Digits of an octal string passed to process.umask.
MaxOctalDigits == 2
\* Bits set in (or cleared from) a value of uv_hrtime().
MaxSetBits == 1

VARIABLES
  async_ids_stack,   \* env->async_hooks(): sequence of <<async_id, trigger_async_id>>, top last
  scopes,            \* live InternalCallbackScope objects, innermost last (the C++ stack)
  hist,              \* per live scope: what has been observed of it (history only)
  can_call_into_js,  \* Environment::can_call_into_js()
  aborted,           \* a CHECK failed or the fatal path was taken: the process is gone
  last,              \* outcome of the last finished operation (history only)
  units,             \* per ThreadPoolWork: its work_req_ and what has been observed of it
  request_waiting,   \* the environment's outstanding-work counter
  main_in,           \* unit whose AfterThreadPoolWork the loop thread is inside, 0 if none
  sched_pc,          \* unit whose ScheduleWork() is between its two calls, 0 if none
  cancel_ret,        \* the last CancelWork(): its return value and what it found
  actor,             \* the thread that took the last step
  pc,                \* where Start(isolate, isolate_data, args, exec_args) stands
  loop_alive,        \* uv_loop_alive(env.event_loop())
  exit_code,         \* process.exitCode, as the process object holds it
  bootstrap,         \* LoadEnvironment: "pending", "ok", "failed_loaders", "failed_node"
  arms,              \* times referenced work has been left or has appeared so far
  ret,               \* the value Start returned, -1 while it has not
  log,               \* the calls Start has made, in order (history only)
  node_isolate,      \* the static node_isolate: "null" or "isolate"
  emit,              \* EmitExit: the code it read first and what the handlers stored
  env_state,         \* an embedder's Environment: "none", "live" or "deleted"
  cleanup_hooks,     \* its registered cleanup hooks, in registration order
  cleanup,           \* the last two RunCleanup() calls (history only)
  tpc,               \* per thread: where its Start(event_loop, ...) stands
  mutex,             \* node_isolate_mutex: the thread that holds it, 0 if none
  starts,            \* per thread: the Start(event_loop, ...) calls it has made
  listeners,         \* process, per event name: how many listeners are registered
  signalWraps,       \* setupSignalHandlers: the event names that have a recorded wrap
  handles,           \* per event name: Signal handles created and not closed
  signals_setup,     \* setupSignalHandlers: "no", "done", or "threw"
  creds,             \* the process credentials: uid, euid, gid, egid, groups
  mask,              \* the file-mode creation mask of the process
  hr,                \* uv_hrtime()'s value and the Uint32Array Hrtime fills
  js                 \* the last call made from JS: what it threw, returned, called

scopeVars == <<async_ids_stack, scopes, hist, can_call_into_js, aborted, last>>
workVars == <<units, request_waiting, main_in, sched_pc, cancel_ret, actor>>
startVars == <<pc, loop_alive, exit_code, bootstrap, arms, ret, log,
               node_isolate, emit>>
envVars == <<env_state, cleanup_hooks, cleanup>>
threadVars == <<tpc, mutex, starts>>
processVars == <<listeners, signalWraps, handles, signals_setup, creds,
                 mask, hr, js>>
vars == <<scopeVars, workVars, startVars, envVars, threadVars, processVars>>

(* --------------------------- async-id stack ---------------------------- *)
AsyncIds == 0..MaxAsyncId

\* The async contexts callers pass: {async_id, trigger_async_id}.
trigger_of(id) == IF id = 0 THEN 0 ELSE id - 1

push_async_ids(stack, async_id, trigger_async_id) ==
  Append(stack, <<async_id, trigger_async_id>>)

\* A pop that does not check the id it is asked to restore.
pop_async_id_unchecked(stack, async_id) ==
  IF Len(stack) = 0
    THEN [stack |-> stack, fatal |-> FALSE]
    ELSE [stack |-> SubSeq(stack, 1, Len(stack) - 1), fatal |-> FALSE]

\* pop_async_id(async_id): nothing to do on an empty (already cleared) stack;
\* an id that is not the one on top is the fatal path; otherwise the top pair
\* is removed.
pop_async_id(stack, async_id) ==
  IF Len(stack) = 0
    THEN [stack |-> stack, fatal |-> FALSE]
    ELSE IF stack[Len(stack)][1] # async_id
      THEN [stack |-> stack, fatal |-> TRUE]
      ELSE [stack |-> SubSeq(stack, 1, Len(stack) - 1), fatal |-> FALSE]

clear_async_id_stack(stack) == <<>>

(* ------------------------ InternalCallbackScope ------------------------ *)
kRequireResource == "kRequireResource"
kAllowEmptyResource == "kAllowEmptyResource"
ResourceExpectation == {kRequireResource, kAllowEmptyResource}

\* What a flush of the microtask queue / tick callback can come to.
FlushOutcomes == {"none", "ok", "throws"}

\* No scope object (a placeholder in records).
NoScope == [async_id |-> 0, object_empty |-> FALSE, failed_ |-> FALSE,
            pushed_ids_ |-> FALSE, closed_ |-> FALSE]

\* Constructor. A missing resource under kRequireResource is a failed CHECK.
\* When the environment can no longer call into JS the scope is born failed
\* and pushes nothing; otherwise the async-id pair is pushed.
InternalCallbackScope(env_ok, object_empty, async_id, expect, stack) ==
  IF expect = kRequireResource /\ object_empty
    THEN [fatal |-> TRUE, stack |-> stack,
          scope |-> [async_id |-> async_id, object_empty |-> object_empty,
                     failed_ |-> FALSE, pushed_ids_ |-> FALSE, closed_ |-> FALSE]]
    ELSE IF ~env_ok
      THEN [fatal |-> FALSE, stack |-> stack,
            scope |-> [async_id |-> async_id, object_empty |-> object_empty,
                       failed_ |-> TRUE, pushed_ids_ |-> FALSE, closed_ |-> FALSE]]
      ELSE [fatal |-> FALSE,
            stack |-> push_async_ids(stack, async_id, trigger_of(async_id)),
            scope |-> [async_id |-> async_id, object_empty |-> object_empty,
                       failed_ |-> FALSE, pushed_ids_ |-> TRUE, closed_ |-> FALSE]]

Failed(s) == s.failed_

\* A MarkAsFailed that forgets to set the flag.
MarkAsFailed_noop(s) == s

\* A MarkAsFailed that also marks the scope closed, so that nothing is popped.
MarkAsFailed_closes(s) == [s EXCEPT !.failed_ = TRUE, !.closed_ = TRUE]

\* A MarkAsFailed that flips the flag instead of setting it.
MarkAsFailed_toggle(s) == [s EXCEPT !.failed_ = ~s.failed_]

MarkAsFailed(s) == [s EXCEPT !.failed_ = TRUE]

\* Close(): only the first call acts. It pops the pair the constructor
\* pushed; a failed scope stops there; otherwise pending microtask/tick work
\* is flushed and an exception surfacing from it fails the scope.
Close(s, stack, flush) ==
  IF s.closed_
    THEN [scope |-> s, stack |-> stack, fatal |-> FALSE,
          popped |-> 0, flushed |-> 0]
    ELSE LET c == [s EXCEPT !.closed_ = TRUE]
             p == IF s.pushed_ids_
                    THEN pop_async_id(stack, s.async_id)
                    ELSE [stack |-> stack, fatal |-> FALSE]
             n == Len(stack) - Len(p.stack)
         IN IF p.fatal
              THEN [scope |-> c, stack |-> stack, fatal |-> TRUE,
                    popped |-> 0, flushed |-> 0]
              ELSE IF c.failed_
                THEN [scope |-> c, stack |-> p.stack, fatal |-> FALSE,
                      popped |-> n, flushed |-> 0]
                ELSE [scope |-> [c EXCEPT !.failed_ = (flush = "throws")],
                      stack |-> p.stack, fatal |-> FALSE, popped |-> n,
                      flushed |-> IF flush = "none" THEN 0 ELSE 1]

\* ~InternalCallbackScope(): Close().
Destroy(s, stack, flush) == Close(s, stack, flush)

(* ------------------------- InternalMakeCallback ------------------------ *)
\* An InternalMakeCallback that reports a missing receiver to its caller
\* instead of failing the CHECK.
InternalMakeCallbackEnter_soft(env_ok, recv_empty, async_id, stack) ==
  LET k == InternalCallbackScope(env_ok, FALSE, async_id, kRequireResource, stack)
  IN IF recv_empty \/ Failed(k.scope)
       THEN [fatal |-> FALSE, entered |-> FALSE, scope |-> k.scope,
             stack |-> stack, ret |-> "empty"]
       ELSE [fatal |-> FALSE, entered |-> TRUE, scope |-> k.scope,
             stack |-> k.stack, ret |-> "pending"]

\* InternalMakeCallback up to the point where the callback is called:
\* CHECK(!recv.IsEmpty()), the scope, and the early return of a scope that is
\* failed from the start (its destructor runs on that return).
InternalMakeCallbackEnter(env_ok, recv_empty, async_id, stack) ==
  IF recv_empty
    THEN [fatal |-> TRUE, entered |-> FALSE, stack |-> stack, ret |-> "empty",
          scope |-> NoScope]
    ELSE LET k == InternalCallbackScope(env_ok, recv_empty, async_id,
                                        kRequireResource, stack)
         IN IF k.fatal
              THEN [fatal |-> TRUE, entered |-> FALSE, scope |-> k.scope,
                    stack |-> stack, ret |-> "empty"]
              ELSE IF Failed(k.scope)
                THEN LET d == Destroy(k.scope, k.stack, "none")
                     IN [fatal |-> d.fatal, entered |-> FALSE, scope |-> d.scope,
                         stack |-> d.stack, ret |-> "empty"]
                ELSE [fatal |-> FALSE, entered |-> TRUE, scope |-> k.scope,
                      stack |-> k.stack, ret |-> "pending"]

\* An InternalMakeCallback that hands back the callback's result without
\* looking at the scope after Close().
InternalMakeCallbackReturn_ignores_close(s, stack, ret_empty, flush) ==
  IF ret_empty
    THEN LET d == Destroy(MarkAsFailed(s), stack, flush)
         IN [scope |-> d.scope, stack |-> d.stack, fatal |-> d.fatal,
             ret |-> "empty", popped |-> d.popped, flushed |-> d.flushed,
             closes |-> 0]
    ELSE LET c == Close(s, stack, flush)
             d == IF c.fatal THEN c ELSE Destroy(c.scope, c.stack, flush)
         IN [scope |-> d.scope, stack |-> d.stack, fatal |-> d.fatal,
             ret |-> "value",
             popped |-> IF c.fatal THEN 0 ELSE c.popped + d.popped,
             flushed |-> IF c.fatal THEN 0 ELSE c.flushed + d.flushed,
             closes |-> 1]

\* InternalMakeCallback from the return of the callback on: an empty result
\* marks the scope failed and returns empty (the destructor closes the
\* scope); otherwise Close(), empty if the scope failed in it, else the
\* callback's result. The destructor runs on every return. closes counts
\* the scope.Close() calls InternalMakeCallback itself makes.
InternalMakeCallbackReturn(s, stack, ret_empty, flush) ==
  IF ret_empty
    THEN LET d == Destroy(MarkAsFailed(s), stack, flush)
         IN [scope |-> d.scope, stack |-> d.stack, fatal |-> d.fatal,
             ret |-> "empty", popped |-> d.popped, flushed |-> d.flushed,
             closes |-> 0]
    ELSE LET c == Close(s, stack, flush)
             d == IF c.fatal THEN c ELSE Destroy(c.scope, c.stack, flush)
         IN [scope |-> d.scope, stack |-> d.stack, fatal |-> d.fatal,
             ret |-> IF Failed(c.scope) THEN "empty" ELSE "value",
             popped |-> IF c.fatal THEN 0 ELSE c.popped + d.popped,
             flushed |-> IF c.fatal THEN 0 ELSE c.flushed + d.flushed,
             closes |-> 1]

(* --------------------------- public MakeCallback ----------------------- *)
\* A MakeCallback that hides every failure from its caller.
MakeCallback_always_undefined(result, makecallback_depth) ==
  IF result = "empty" THEN "undefined" ELSE result

\* MakeCallback(isolate, recv, callback, ...): what it hands back, given the
\* result of InternalMakeCallback and env->makecallback_depth() read after
\* that call has returned.
MakeCallback(result, makecallback_depth) ==
  IF result = "empty" /\ makecallback_depth = 0 THEN "undefined" ELSE result

(* ----------------------- callback-scope operations --------------------- *)
NoHist == [pre |-> <<>>, pops |-> 0, flushes |-> 0, marked |-> FALSE,
           owner |-> "none", expect |-> kAllowEmptyResource, was_failed |-> FALSE]
NoLast == [op |-> "none", require_empty |-> FALSE, mismatch |-> FALSE,
           balanced |-> TRUE, scope |-> NoScope, h |-> NoHist, ret |-> "none",
           closes |-> 0, pub |-> "none"]

Top == Len(scopes)
TopIsDirect == Top > 0 /\ hist[Top].owner = "direct"
TopIsMakeCallback == Top > 0 /\ hist[Top].owner = "imc"

\* Whether closing scope s now pops with an id that is not the one on top.
ClosePopsMismatched(s) ==
  /\ ~s.closed_
  /\ s.pushed_ids_
  /\ Len(async_ids_stack) > 0
  /\ async_ids_stack[Len(async_ids_stack)][1] # s.async_id

Fatal(l) ==
  /\ aborted' = TRUE
  /\ last' = l
  /\ UNCHANGED <<async_ids_stack, scopes, hist, can_call_into_js>>

\* A native caller declares an InternalCallbackScope (CallbackScope,
\* AsyncWrap::MakeCallback, ...), inside whatever is running.
ScopeConstruct(async_id, expect, object_empty) ==
  /\ ~aborted
  /\ Top < MaxDepth
  /\ LET k == InternalCallbackScope(can_call_into_js, object_empty, async_id,
                                    expect, async_ids_stack)
         attempt == [NoLast EXCEPT !.op = "ctor",
                       !.require_empty = (expect = kRequireResource /\ object_empty)]
     IN IF k.fatal
          THEN Fatal(attempt)
          ELSE /\ async_ids_stack' = k.stack
               /\ scopes' = Append(scopes, k.scope)
               /\ hist' = Append(hist, [NoHist EXCEPT !.pre = async_ids_stack,
                                          !.owner = "direct", !.expect = expect,
                                          !.was_failed = k.scope.failed_])
               /\ last' = attempt
               /\ UNCHANGED <<can_call_into_js, aborted>>
  /\ UNCHANGED <<workVars, startVars, envVars, threadVars, processVars>>

\* scope.Close() on the innermost scope.
ScopeClose(flush) ==
  /\ ~aborted
  /\ TopIsDirect
  /\ LET c == Close(scopes[Top], async_ids_stack, flush)
     IN IF c.fatal
          THEN Fatal([NoLast EXCEPT !.op = "close",
                        !.mismatch = ClosePopsMismatched(scopes[Top])])
          ELSE /\ async_ids_stack' = c.stack
               /\ scopes' = [scopes EXCEPT ![Top] = c.scope]
               /\ hist' = [hist EXCEPT ![Top].pops = @ + c.popped,
                                       ![Top].flushes = @ + c.flushed]
               /\ last' = [NoLast EXCEPT !.op = "close",
                             !.mismatch = ClosePopsMismatched(scopes[Top])]
               /\ UNCHANGED <<can_call_into_js, aborted>>
  /\ UNCHANGED <<workVars, startVars, envVars, threadVars, processVars>>

\* scope.MarkAsFailed() on the innermost scope.
ScopeMarkAsFailed ==
  /\ ~aborted
  /\ TopIsDirect
  /\ scopes' = [scopes EXCEPT ![Top] = MarkAsFailed(@)]
  /\ hist' = [hist EXCEPT ![Top].marked = @ \/ ~scopes[Top].closed_]
  /\ last' = [NoLast EXCEPT !.op = "mark"]
  /\ UNCHANGED <<async_ids_stack, can_call_into_js, aborted>>
  /\ UNCHANGED <<workVars, startVars, envVars, threadVars, processVars>>

\* The innermost scope goes out of scope: ~InternalCallbackScope().
ScopeDestroy(flush) ==
  /\ ~aborted
  /\ TopIsDirect
  /\ LET d == Destroy(scopes[Top], async_ids_stack, flush)
         h == [hist[Top] EXCEPT !.pops = @ + d.popped, !.flushes = @ + d.flushed]
         l == [NoLast EXCEPT !.op = "destroy", !.scope = d.scope,
                 !.h = [h EXCEPT !.pre = <<>>],
                 !.mismatch = ClosePopsMismatched(scopes[Top]),
                 !.balanced = (d.stack = h.pre)]
     IN IF d.fatal
          THEN Fatal([l EXCEPT !.scope = NoScope, !.h = NoHist, !.balanced = TRUE])
          ELSE /\ async_ids_stack' = d.stack
               /\ scopes' = SubSeq(scopes, 1, Top - 1)
               /\ hist' = SubSeq(hist, 1, Top - 1)
               /\ last' = l
               /\ UNCHANGED <<can_call_into_js, aborted>>
  /\ UNCHANGED <<workVars, startVars, envVars, threadVars, processVars>>

\* InternalMakeCallback is called and reaches callback->Call(...).
MakeCallbackEnter(recv_empty, async_id) ==
  /\ ~aborted
  /\ Top < MaxDepth
  /\ LET e == InternalMakeCallbackEnter(can_call_into_js, recv_empty, async_id,
                                        async_ids_stack)
         l == [NoLast EXCEPT !.op = "imc_enter", !.require_empty = recv_empty,
                 !.ret = e.ret]
     IN IF e.fatal
          THEN Fatal(l)
          ELSE IF e.entered
            THEN /\ async_ids_stack' = e.stack
                 /\ scopes' = Append(scopes, e.scope)
                 /\ hist' = Append(hist, [NoHist EXCEPT !.pre = async_ids_stack,
                                            !.owner = "imc",
                                            !.expect = kRequireResource])
                 /\ last' = l
                 /\ UNCHANGED <<can_call_into_js, aborted>>
            ELSE /\ async_ids_stack' = e.stack
                 /\ last' = [l EXCEPT !.scope = e.scope,
                               !.h = [NoHist EXCEPT !.owner = "imc",
                                        !.expect = kRequireResource,
                                        !.was_failed = TRUE],
                               !.balanced = (e.stack = async_ids_stack),
                               !.pub = MakeCallback(e.ret, Len(scopes))]
                 /\ UNCHANGED <<scopes, hist, can_call_into_js, aborted>>
  /\ UNCHANGED <<workVars, startVars, envVars, threadVars, processVars>>

\* The callback of the innermost InternalMakeCallback returns; the rest of
\* InternalMakeCallback runs, its scope is destroyed, and the public
\* MakeCallback around it decides what its own caller gets: the scopes still
\* live then are the callbacks this call was nested in.
MakeCallbackReturn(ret_empty, flush) ==
  /\ ~aborted
  /\ TopIsMakeCallback
  /\ LET r == InternalMakeCallbackReturn(scopes[Top], async_ids_stack,
                                         ret_empty, flush)
         h == [hist[Top] EXCEPT !.pops = @ + r.popped, !.flushes = @ + r.flushed,
                                !.marked = ret_empty]
         l == [NoLast EXCEPT !.op = "imc_return", !.scope = r.scope,
                 !.h = [h EXCEPT !.pre = <<>>],
                 !.mismatch = ClosePopsMismatched(scopes[Top]),
                 !.balanced = (r.stack = h.pre), !.ret = r.ret,
                 !.closes = r.closes,
                 !.pub = MakeCallback(r.ret, Top - 1)]
     IN IF r.fatal
          THEN Fatal([l EXCEPT !.scope = NoScope, !.h = NoHist, !.balanced = TRUE,
                               !.ret = "none", !.closes = 0, !.pub = "none"])
          ELSE /\ async_ids_stack' = r.stack
               /\ scopes' = SubSeq(scopes, 1, Top - 1)
               /\ hist' = SubSeq(hist, 1, Top - 1)
               /\ last' = l
               /\ UNCHANGED <<can_call_into_js, aborted>>
  /\ UNCHANGED <<workVars, startVars, envVars, threadVars, processVars>>

\* env.set_can_call_into_js(false): done by Start once the run loop is over,
\* when no callback scope is live.
StopCallingIntoJs ==
  /\ ~aborted
  /\ can_call_into_js
  /\ scopes = <<>>
  /\ can_call_into_js' = FALSE
  /\ last' = NoLast
  /\ UNCHANGED <<async_ids_stack, scopes, hist, aborted>>
  /\ UNCHANGED <<workVars, startVars, envVars, threadVars, processVars>>

InitScope ==
  /\ async_ids_stack = <<>>
  /\ scopes = <<>>
  /\ hist = <<>>
  /\ can_call_into_js = TRUE
  /\ aborted = FALSE
  /\ last = NoLast

NextScope ==
  \/ \E id \in AsyncIds, e \in ResourceExpectation, o \in BOOLEAN :
       ScopeConstruct(id, e, o)
  \/ \E f \in FlushOutcomes : ScopeClose(f)
  \/ ScopeMarkAsFailed
  \/ \E f \in FlushOutcomes : ScopeDestroy(f)
  \/ \E r \in BOOLEAN, id \in AsyncIds : MakeCallbackEnter(r, id)
  \/ \E r \in BOOLEAN, f \in FlushOutcomes : MakeCallbackReturn(r, f)
  \/ StopCallingIntoJs


(* ------------------ pushing and popping async ids by hand -------------- *)
\* env->async_hooks()->push_async_ids(id, trigger) outside any scope object.
ManualPush(async_id) ==
  /\ ~aborted
  /\ Len(async_ids_stack) < MaxDepth
  /\ async_ids_stack' = push_async_ids(async_ids_stack, async_id,
                                       trigger_of(async_id))
  /\ last' = [NoLast EXCEPT !.op = "push"]
  /\ UNCHANGED <<scopes, hist, can_call_into_js, aborted>>
  /\ UNCHANGED <<workVars, startVars, envVars, threadVars, processVars>>

\* env->async_hooks()->pop_async_id(id) outside any scope object.
ManualPop(async_id) ==
  /\ ~aborted
  /\ LET p == pop_async_id(async_ids_stack, async_id)
         l == [NoLast EXCEPT !.op = "pop",
                 !.mismatch = /\ Len(async_ids_stack) > 0
                              /\ async_ids_stack[Len(async_ids_stack)][1] # async_id]
     IN IF p.fatal
          THEN Fatal(l)
          ELSE /\ async_ids_stack' = p.stack
               /\ last' = l
               /\ UNCHANGED <<scopes, hist, can_call_into_js, aborted>>
  /\ UNCHANGED <<workVars, startVars, envVars, threadVars, processVars>>

\* Pushes and pops by hand, around at most one live callback scope.
NextTamper ==
  \/ NextScope /\ Len(scopes') <= 1
  \/ \E id \in AsyncIds : ManualPush(id)
  \/ \E id \in AsyncIds : ManualPop(id)


(* ============================ ThreadPoolWork =========================== *)
Units == 1..MaxUnits

\* libuv status codes.
UV_ECANCELED == -125
UV_EBUSY == -16

\* States of a work request: not in flight; in the thread pool's queue; being
\* executed by a worker; executed, completion posted to the loop; cancelled,
\* completion posted to the loop.
ReqStates == {"idle", "queued", "running", "finished", "cancelled"}

IncreaseWaitingRequestCounter(n) == n + 1

DecreaseWaitingRequestCounter(n) == n - 1

\* uv_queue_work(loop, req, work_cb, after_work_cb): the request is queued;
\* it fails only without a work_cb.
uv_queue_work(req) == [req |-> "queued", status |-> 0]

\* uv_cancel(req): a request still in the queue is taken out of it and its
\* completion is posted with UV_ECANCELED; anything else is busy.
uv_cancel(req) ==
  IF req \in {"queued", "cancelled"}
    THEN [req |-> "cancelled", ret |-> 0]
    ELSE [req |-> req, ret |-> UV_EBUSY]

\* The status libuv hands to after_work_cb.
uv_work_done_status(req) == IF req = "cancelled" THEN UV_ECANCELED ELSE 0

\* A CancelWork that reports success whatever uv_cancel said.
CancelWork_always_ok(req) == [uv_cancel(req) EXCEPT !.ret = 0]

\* ThreadPoolWork::CancelWork().
CancelWork(req) == uv_cancel(req)

\* A work callback that also gives the counter back, on the worker thread.
WorkCallbackCounter_decrements(n) == DecreaseWaitingRequestCounter(n)

\* The counter after the work callback (first lambda of ScheduleWork) has
\* run DoThreadPoolWork(): it does not touch the environment.
WorkCallbackCounter(n) == n

\* A completion callback that calls AfterThreadPoolWork before decrementing.
AfterCallbackCounter_late(n) == n

\* The counter at the moment the completion callback (second lambda of
\* ScheduleWork) calls AfterThreadPoolWork.
AfterCallbackCounter(n) == DecreaseWaitingRequestCounter(n)

\* A completion callback that drops libuv's status.
AfterCallbackStatus_zero(status) == 0

\* The status the completion callback passes to AfterThreadPoolWork.
AfterCallbackStatus(status) == status

\* work_req_ of a unit, and what has been observed of the unit: times
\* scheduled, completions delivered, whether DoThreadPoolWork was entered
\* since the last submission, the status and the kind of the last completion,
\* whether CancelWork() came after the work had started.
NoUnit == [req |-> "idle", schedules |-> 0, afters |-> 0, ran |-> FALSE,
           status |-> 0, done_kind |-> "none", cancel_late |-> FALSE]

NoCancel == [ret |-> 0, found |-> "none"]

\* Nothing else runs on the loop thread while ScheduleWork() is under way.
MainFree == ~aborted /\ sched_pc = 0

\* A ScheduleWork() that does not tell the environment about the unit.
ScheduleWorkIncrease_uncounted(u) ==
  /\ MainFree
  /\ units[u].req = "idle"
  /\ units[u].schedules < MaxSchedules
  /\ sched_pc' = u
  /\ actor' = "main"
  /\ cancel_ret' = NoCancel
  /\ UNCHANGED <<units, main_in, request_waiting>>
  /\ UNCHANGED <<scopeVars, startVars, envVars, threadVars, processVars>>

\* ScheduleWork(), first call: env_->IncreaseWaitingRequestCounter().
ScheduleWorkIncrease(u) ==
  /\ MainFree
  /\ units[u].req = "idle"
  /\ units[u].schedules < MaxSchedules
  /\ request_waiting' = IncreaseWaitingRequestCounter(request_waiting)
  /\ sched_pc' = u
  /\ actor' = "main"
  /\ cancel_ret' = NoCancel
  /\ UNCHANGED <<units, main_in>>
  /\ UNCHANGED <<scopeVars, startVars, envVars, threadVars, processVars>>

\* ScheduleWork(), second call: uv_queue_work(...) and CHECK_EQ(status, 0).
ScheduleWorkSubmit(u) ==
  /\ ~aborted
  /\ sched_pc = u
  /\ LET q == uv_queue_work(units[u].req)
     IN IF q.status # 0
          THEN /\ aborted' = TRUE
               /\ UNCHANGED <<units, sched_pc>>
          ELSE /\ units' = [units EXCEPT ![u].req = q.req,
                                         ![u].schedules = @ + 1,
                                         ![u].ran = FALSE,
                                         ![u].cancel_late = FALSE]
               /\ sched_pc' = 0
               /\ UNCHANGED aborted
  /\ actor' = "main"
  /\ cancel_ret' = NoCancel
  /\ UNCHANGED <<request_waiting, main_in>>
  /\ UNCHANGED <<async_ids_stack, scopes, hist, can_call_into_js, last>>
  /\ UNCHANGED <<startVars, envVars, threadVars, processVars>>

\* A worker thread takes the request from the queue and enters the work
\* callback: self->DoThreadPoolWork() starts.
WorkerStart(u) ==
  /\ ~aborted
  /\ units[u].req = "queued"
  /\ units' = [units EXCEPT ![u].req = "running", ![u].ran = TRUE]
  /\ actor' = "worker"
  /\ UNCHANGED <<request_waiting, main_in, sched_pc, cancel_ret>>
  /\ UNCHANGED <<scopeVars, startVars, envVars, threadVars, processVars>>

\* DoThreadPoolWork() returns on the worker; libuv posts the completion.
WorkerFinish(u) ==
  /\ ~aborted
  /\ units[u].req = "running"
  /\ units' = [units EXCEPT ![u].req = "finished"]
  /\ request_waiting' = WorkCallbackCounter(request_waiting)
  /\ actor' = "worker"
  /\ UNCHANGED <<main_in, sched_pc, cancel_ret>>
  /\ UNCHANGED <<scopeVars, startVars, envVars, threadVars, processVars>>

\* A completion callback that does nothing for a cancelled request.
LoopDone_drops_cancelled(u) ==
  /\ MainFree
  /\ main_in = 0
  /\ units[u].req \in {"finished", "cancelled"}
  /\ IF units[u].req = "cancelled"
       THEN /\ units' = [units EXCEPT ![u].req = "idle"]
            /\ UNCHANGED <<request_waiting, main_in>>
       ELSE /\ request_waiting' = AfterCallbackCounter(request_waiting)
            /\ units' = [units EXCEPT
                 ![u].req = "idle",
                 ![u].afters = @ + 1,
                 ![u].status = AfterCallbackStatus(uv_work_done_status(units[u].req)),
                 ![u].done_kind = units[u].req]
            /\ main_in' = u
  /\ actor' = "main"
  /\ cancel_ret' = NoCancel
  /\ UNCHANGED sched_pc
  /\ UNCHANGED <<scopeVars, startVars, envVars, threadVars, processVars>>

\* The loop thread runs the completion callback of a posted completion:
\* DecreaseWaitingRequestCounter(), then AfterThreadPoolWork(status) is
\* entered.
LoopDone(u) ==
  /\ MainFree
  /\ main_in = 0
  /\ units[u].req \in {"finished", "cancelled"}
  /\ request_waiting' = AfterCallbackCounter(request_waiting)
  /\ units' = [units EXCEPT
       ![u].req = "idle",
       ![u].afters = @ + 1,
       ![u].status = AfterCallbackStatus(uv_work_done_status(units[u].req)),
       ![u].done_kind = units[u].req]
  /\ main_in' = u
  /\ actor' = "main"
  /\ cancel_ret' = NoCancel
  /\ UNCHANGED sched_pc
  /\ UNCHANGED <<scopeVars, startVars, envVars, threadVars, processVars>>

\* AfterThreadPoolWork(status) returns to the loop.
AfterReturn(u) ==
  /\ MainFree
  /\ main_in = u
  /\ main_in' = 0
  /\ actor' = "main"
  /\ cancel_ret' = NoCancel
  /\ UNCHANGED <<units, request_waiting, sched_pc>>
  /\ UNCHANGED <<scopeVars, startVars, envVars, threadVars, processVars>>

\* CancelWork() on a unit whose work_req_ has been submitted at least once.
CancelWorkCall(u) ==
  /\ MainFree
  /\ units[u].schedules > 0
  /\ LET c == CancelWork(units[u].req)
     IN /\ units' = [units EXCEPT
             ![u].req = c.req,
             ![u].cancel_late = @ \/ units[u].req \in {"running", "finished"}]
        /\ cancel_ret' = [ret |-> c.ret, found |-> units[u].req]
  /\ actor' = "main"
  /\ UNCHANGED <<request_waiting, main_in, sched_pc>>
  /\ UNCHANGED <<scopeVars, startVars, envVars, threadVars, processVars>>

InitWork ==
  /\ units = [u \in Units |-> NoUnit]
  /\ request_waiting = 0
  /\ main_in = 0
  /\ sched_pc = 0
  /\ cancel_ret = NoCancel
  /\ actor = "main"

NextWork ==
  \/ \E u \in Units : ScheduleWorkIncrease(u)
  \/ \E u \in Units : ScheduleWorkSubmit(u)
  \/ \E u \in Units : WorkerStart(u)
  \/ \E u \in Units : WorkerFinish(u)
  \/ \E u \in Units : LoopDone(u)
  \/ \E u \in Units : AfterReturn(u)
  \/ \E u \in Units : CancelWorkCall(u)

(* ================= Start(isolate, isolate_data, args, exec_args) ======= *)
\* Exit codes a handler may store in process.exitCode.
ExitCodes == {0, 1, 7}

\* An ExecuteBootstrapper that does not reset the stack on failure.
ExecuteBootstrapper_keeps(stack, result, leftover) ==
  [ret |-> result, stack |-> stack \o leftover]

\* An ExecuteBootstrapper that, on failure, removes only the top pair.
ExecuteBootstrapper_pops_one(stack, result, leftover) ==
  LET s == stack \o leftover
  IN IF result = "empty" /\ s # <<>>
       THEN [ret |-> result, stack |-> SubSeq(s, 1, Len(s) - 1)]
       ELSE [ret |-> result, stack |-> s]

\* ExecuteBootstrapper: CompileAndCall returns result, having left
\* `leftover` on the async-id stack; an empty result clears the stack.
ExecuteBootstrapper(stack, result, leftover) ==
  IF result = "empty"
    THEN [ret |-> result, stack |-> clear_async_id_stack(stack \o leftover)]
    ELSE [ret |-> result, stack |-> stack \o leftover]

\* LoadEnvironment: the loaders bootstrapper, then, unless it failed, the
\* node bootstrapper. A bootstrapper that succeeds leaves the stack as it
\* found it.
LoadEnvironment(stack, r1, r2, leftover) ==
  LET loaders == ExecuteBootstrapper(stack, r1,
                                     IF r1 = "empty" THEN leftover ELSE <<>>)
  IN IF loaders.ret = "empty"
       THEN [stack |-> loaders.stack, failed |-> TRUE,
             calls |-> <<"bootstrap_loaders">>]
       ELSE LET node == ExecuteBootstrapper(loaders.stack, r2,
                                            IF r2 = "empty" THEN leftover ELSE <<>>)
            IN [stack |-> node.stack, failed |-> (node.ret = "empty"),
                calls |-> <<"bootstrap_loaders", "bootstrap_node">>]

\* The pairs a failed bootstrapper can leave behind: n times the pair of id.
Leftover(id, n) == [i \in 1..n |-> <<id, trigger_of(id)>>]

\* Whether new referenced work may still appear.
MayArm == arms < MaxArms

At(p) == ~aborted /\ pc = p

\* What EmitExit has observed, before it ran.
NoEmit == [code |-> -1, handler_sets |-> FALSE, written |-> -1,
           exiting |-> FALSE, seen |-> FALSE, arg |-> -1]

\* What a dereference of an empty Local<Context> can do: the process
\* crashes, or the build goes on with the empty handle.
EmptyContextOutcomes == {"crash", "continues"}

\* A Start that goes on with a null isolate.
NewIsolateCall_ignores_null(allocated) ==
  /\ At("new_isolate")
  /\ node_isolate' = "isolate"
  /\ log' = IF allocated
              THEN log \o <<"create_allocator", "register_isolate",
                            "initialize_isolate", "set_node_isolate",
                            "create_isolate_data">>
              ELSE log \o <<"create_allocator", "new_isolate_null",
                            "set_node_isolate", "create_isolate_data">>
  /\ pc' = "new_context"
  /\ UNCHANGED <<loop_alive, exit_code, bootstrap, arms, ret, emit>>
  /\ UNCHANGED <<scopeVars, workVars, envVars, threadVars, processVars>>

\* Start(event_loop, args, exec_args): the allocator is created, then
\* NewIsolate(); a null isolate returns 12 (the allocator is freed on the
\* way out), otherwise the isolate is registered on the platform,
\* initialized, becomes node_isolate, and the IsolateData is created.
NewIsolateCall(allocated) ==
  /\ At("new_isolate")
  /\ IF allocated
       THEN /\ node_isolate' = "isolate"
            /\ log' = log \o <<"create_allocator", "register_isolate",
                                "initialize_isolate", "set_node_isolate",
                                "create_isolate_data">>
            /\ pc' = "new_context"
            /\ UNCHANGED ret
       ELSE /\ ret' = 12
            /\ log' = log \o <<"create_allocator", "new_isolate_null",
                                "free_allocator", "start_return">>
            /\ pc' = "done"
            /\ UNCHANGED node_isolate
  /\ UNCHANGED <<loop_alive, exit_code, bootstrap, arms, emit>>
  /\ UNCHANGED <<scopeVars, workVars, envVars, threadVars, processVars>>

\* Local<Context> context = NewContext(isolate); Context::Scope
\* context_scope(context). NewContext returns an empty handle when
\* per_context.js fails; the handle is entered without a test.
NewContextCall(empty, outcome) ==
  /\ At("new_context")
  /\ IF empty /\ outcome = "crash"
       THEN /\ aborted' = TRUE
            /\ log' = Append(log, "new_context_empty")
            /\ UNCHANGED pc
       ELSE /\ pc' = "start"
            /\ log' = Append(log, IF empty THEN "new_context_empty"
                                            ELSE "new_context")
            /\ UNCHANGED aborted
  /\ UNCHANGED <<loop_alive, exit_code, bootstrap, arms, ret, node_isolate, emit>>
  /\ UNCHANGED <<async_ids_stack, scopes, hist, can_call_into_js, last>>
  /\ UNCHANGED <<workVars, envVars, threadVars, processVars>>

\* Environment env(...); env.Start(...); StartInspector; the inspector
\* check returns 12.
EnvStart(inspector_failed) ==
  /\ At("start")
  /\ IF inspector_failed
       THEN /\ ret' = 12
            /\ pc' = "returned"
            /\ log' = log \o <<"env_create", "env_start", "start_inspector",
                                "return", "env_destroy">>
       ELSE /\ pc' = "bootstrap_push"
            /\ log' = log \o <<"env_create", "env_start", "start_inspector">>
            /\ UNCHANGED ret
  /\ UNCHANGED <<loop_alive, exit_code, bootstrap, arms>>
  /\ UNCHANGED <<scopeVars, workVars, envVars, threadVars, node_isolate, emit, processVars>>

\* AsyncCallbackScope callback_scope(&env); push_async_ids(1, 0).
BootstrapPush ==
  /\ At("bootstrap_push")
  /\ async_ids_stack' = push_async_ids(async_ids_stack, 1, 0)
  /\ pc' = "load"
  /\ UNCHANGED <<loop_alive, exit_code, bootstrap, arms, ret, log>>
  /\ UNCHANGED <<scopes, hist, can_call_into_js, aborted, last>>
  /\ UNCHANGED <<workVars, envVars, threadVars, node_isolate, emit, processVars>>

\* LoadEnvironment(&env). The scripts may leave referenced work on the loop
\* and may set process.exitCode.
LoadEnvironmentCall(r1, r2, leftover, alive, code) ==
  /\ At("load")
  /\ LET l == LoadEnvironment(async_ids_stack, r1, r2, leftover)
     IN /\ async_ids_stack' = l.stack
        /\ bootstrap' = IF ~l.failed THEN "ok"
                        ELSE IF r1 = "empty" THEN "failed_loaders"
                        ELSE "failed_node"
        /\ log' = log \o l.calls
  /\ loop_alive' = alive
  /\ exit_code' = code
  /\ pc' = "bootstrap_pop"
  /\ UNCHANGED <<arms, ret>>
  /\ UNCHANGED <<scopes, hist, can_call_into_js, aborted, last>>
  /\ UNCHANGED <<workVars, envVars, threadVars, node_isolate, emit, processVars>>

\* env.async_hooks()->pop_async_id(1), end of the bootstrap block.
BootstrapPop ==
  /\ At("bootstrap_pop")
  /\ LET p == pop_async_id(async_ids_stack, 1)
     IN IF p.fatal
          THEN /\ aborted' = TRUE
               /\ UNCHANGED <<async_ids_stack, pc>>
          ELSE /\ async_ids_stack' = p.stack
               /\ pc' = "uv_run"
               /\ UNCHANGED aborted
  /\ UNCHANGED <<loop_alive, exit_code, bootstrap, arms, ret, log>>
  /\ UNCHANGED <<scopes, hist, can_call_into_js, last>>
  /\ UNCHANGED <<workVars, envVars, threadVars, node_isolate, emit, processVars>>

\* uv_run(env.event_loop(), UV_RUN_DEFAULT): returns when nothing referenced
\* is left, or earlier when the loop was stopped.
UvRun(stopped) ==
  /\ At("uv_run")
  /\ stopped => MayArm
  /\ loop_alive' = stopped
  /\ arms' = IF stopped THEN arms + 1 ELSE arms
  /\ log' = Append(log, "uv_run")
  /\ pc' = "drain"
  /\ UNCHANGED <<exit_code, bootstrap, ret>>
  /\ UNCHANGED <<scopeVars, workVars, envVars, threadVars, node_isolate, emit, processVars>>

\* v8_platform.DrainVMTasks(isolate) in the loop; a task may leave
\* referenced work.
DrainVMTasks(armed) ==
  /\ At("drain")
  /\ armed => (~loop_alive /\ MayArm)
  /\ loop_alive' = (loop_alive \/ armed)
  /\ arms' = IF armed THEN arms + 1 ELSE arms
  /\ log' = Append(log, "drain")
  /\ pc' = "check_more"
  /\ UNCHANGED <<exit_code, bootstrap, ret>>
  /\ UNCHANGED <<scopeVars, workVars, envVars, threadVars, node_isolate, emit, processVars>>

\* A loop that goes on to the before-exit pass whatever uv_loop_alive says.
CheckMore_falls_through ==
  /\ At("check_more")
  /\ pc' = "before_exit"
  /\ UNCHANGED <<loop_alive, exit_code, bootstrap, arms, ret, log>>
  /\ UNCHANGED <<scopeVars, workVars, envVars, threadVars, node_isolate, emit, processVars>>

\* more = uv_loop_alive(...); if (more) continue;
CheckMore ==
  /\ At("check_more")
  /\ pc' = IF loop_alive THEN "uv_run" ELSE "before_exit"
  /\ UNCHANGED <<loop_alive, exit_code, bootstrap, arms, ret, log>>
  /\ UNCHANGED <<scopeVars, workVars, envVars, threadVars, node_isolate, emit, processVars>>

\* A RunBeforeExit that emits 'beforeExit' without looking at the loop.
RunBeforeExit_always_emits(native_armed, js_armed) ==
  /\ At("before_exit")
  /\ (native_armed \/ js_armed) => MayArm
  /\ ~(native_armed /\ js_armed)
  /\ log' = IF native_armed
              THEN log \o <<"before_exit_callbacks", "new_work",
                            "emit_beforeExit">>
              ELSE IF js_armed
                THEN log \o <<"before_exit_callbacks", "emit_beforeExit",
                              "new_work">>
                ELSE log \o <<"before_exit_callbacks", "emit_beforeExit">>
  /\ loop_alive' = (native_armed \/ js_armed)
  /\ arms' = IF native_armed \/ js_armed THEN arms + 1 ELSE arms
  /\ pc' = "recheck"
  /\ UNCHANGED <<exit_code, bootstrap, ret>>
  /\ UNCHANGED <<scopeVars, workVars, envVars, threadVars, node_isolate, emit, processVars>>

\* RunBeforeExit(&env): the native before-exit callbacks, then, if the loop
\* is still not alive, EmitBeforeExit. Either may leave referenced work.
RunBeforeExit(native_armed, js_armed) ==
  /\ At("before_exit")
  /\ (native_armed \/ js_armed) => MayArm
  /\ ~(native_armed /\ js_armed)
  /\ log' = IF native_armed
              THEN log \o <<"before_exit_callbacks", "new_work">>
              ELSE IF js_armed
                THEN log \o <<"before_exit_callbacks", "emit_beforeExit",
                              "new_work">>
                ELSE log \o <<"before_exit_callbacks", "emit_beforeExit">>
  /\ loop_alive' = (native_armed \/ js_armed)
  /\ arms' = IF native_armed \/ js_armed THEN arms + 1 ELSE arms
  /\ pc' = "recheck"
  /\ UNCHANGED <<exit_code, bootstrap, ret>>
  /\ UNCHANGED <<scopeVars, workVars, envVars, threadVars, node_isolate, emit, processVars>>

\* A loop whose condition is always true.
Recheck_always_loops ==
  /\ At("recheck")
  /\ pc' = "uv_run"
  /\ UNCHANGED <<loop_alive, exit_code, bootstrap, arms, ret, log>>
  /\ UNCHANGED <<scopeVars, workVars, envVars, threadVars, node_isolate, emit, processVars>>

\* A loop that is left after the first before-exit pass.
Recheck_never_loops ==
  /\ At("recheck")
  /\ pc' = "emit_exit"
  /\ UNCHANGED <<loop_alive, exit_code, bootstrap, arms, ret, log>>
  /\ UNCHANGED <<scopeVars, workVars, envVars, threadVars, node_isolate, emit, processVars>>

\* A loop that is left after its second before-exit pass, alive or not.
Recheck_gives_up ==
  /\ At("recheck")
  /\ pc' = IF loop_alive /\
              Cardinality({i \in 1..Len(log) :
                             log[i] = "before_exit_callbacks"}) < 2
             THEN "uv_run" ELSE "emit_exit"
  /\ UNCHANGED <<loop_alive, exit_code, bootstrap, arms, ret, log>>
  /\ UNCHANGED <<scopeVars, workVars, envVars, threadVars, node_isolate, emit, processVars>>

\* more = uv_loop_alive(...); } while (more == true);
Recheck ==
  /\ At("recheck")
  /\ pc' = IF loop_alive THEN "uv_run" ELSE "emit_exit"
  /\ UNCHANGED <<loop_alive, exit_code, bootstrap, arms, ret, log>>
  /\ UNCHANGED <<scopeVars, workVars, envVars, threadVars, node_isolate, emit, processVars>>

\* An EmitExit that returns the code it read before emitting.
EmitExitReturn_before(code, reloaded) == code

\* EmitExit's return value: process.exitCode reloaded after emit('exit'),
\* not `code`, the value read before.
EmitExitReturn(code, reloaded) == reloaded

\* An EmitExit that sets process._exiting only once the handlers are done:
\* what the handlers find in it is what was there before.
EmitExitExiting_late(exiting) == exiting

\* process._exiting as the 'exit' handlers find it: EmitExit stores true
\* before it emits.
EmitExitExiting(exiting) == TRUE

\* The code EmitExit passes to the handlers: `code`, read before emitting.
EmitExitArg(code, reloaded) == code

\* const int exit_code = EmitExit(&env): process._exiting is set, the exit
\* code is read and passed to the 'exit' handlers, which may store a new
\* exit code; the code is read again after they ran.
EmitExit(handler_sets, code) ==
  /\ At("emit_exit")
  /\ exit_code' = IF handler_sets THEN code ELSE exit_code
  /\ ret' = EmitExitReturn(exit_code, exit_code')
  /\ emit' = [code |-> exit_code, handler_sets |-> handler_sets,
              written |-> IF handler_sets THEN code ELSE -1,
              exiting |-> TRUE, seen |-> EmitExitExiting(emit.exiting),
              arg |-> EmitExitArg(exit_code, exit_code')]
  /\ log' = Append(log, "emit_exit")
  /\ pc' = "stop_js"
  /\ UNCHANGED <<loop_alive, bootstrap, arms>>
  /\ UNCHANGED <<scopeVars, workVars, envVars, threadVars, node_isolate, processVars>>

\* A shutdown that leaves calls into JS allowed.
SetCanCallIntoJsFalse_keeps ==
  /\ At("stop_js")
  /\ pc' = "cleanup"
  /\ UNCHANGED <<loop_alive, exit_code, bootstrap, arms, ret, log>>
  /\ UNCHANGED <<scopeVars, workVars, envVars, threadVars, node_isolate, emit, processVars>>

\* env.set_can_call_into_js(false).
SetCanCallIntoJsFalse ==
  /\ At("stop_js")
  /\ can_call_into_js' = FALSE
  /\ pc' = "cleanup"
  /\ UNCHANGED <<loop_alive, exit_code, bootstrap, arms, ret, log>>
  /\ UNCHANGED <<async_ids_stack, scopes, hist, aborted, last>>
  /\ UNCHANGED <<workVars, envVars, threadVars, node_isolate, emit, processVars>>

\* A shutdown that runs the at-exit callbacks before the cleanup.
RunCleanup_after_at_exit ==
  /\ At("cleanup")
  /\ log' = log \o <<"run_at_exit", "run_cleanup">>
  /\ pc' = "final_drain"
  /\ UNCHANGED <<loop_alive, exit_code, bootstrap, arms, ret>>
  /\ UNCHANGED <<scopeVars, workVars, envVars, threadVars, node_isolate, emit, processVars>>

\* env.RunCleanup().
RunCleanup ==
  /\ At("cleanup")
  /\ log' = Append(log, "run_cleanup")
  /\ pc' = "at_exit"
  /\ UNCHANGED <<loop_alive, exit_code, bootstrap, arms, ret>>
  /\ UNCHANGED <<scopeVars, workVars, envVars, threadVars, node_isolate, emit, processVars>>

\* RunAtExit(&env).
RunAtExit ==
  /\ At("at_exit")
  /\ log' = Append(log, "run_at_exit")
  /\ pc' = "final_drain"
  /\ UNCHANGED <<loop_alive, exit_code, bootstrap, arms, ret>>
  /\ UNCHANGED <<scopeVars, workVars, envVars, threadVars, node_isolate, emit, processVars>>

\* DrainVMTasks, CancelVMTasks, return exit_code; env is destroyed.
FinalDrainAndReturn ==
  /\ At("final_drain")
  /\ log' = log \o <<"drain", "cancel", "return", "env_destroy">>
  /\ pc' = "returned"
  /\ UNCHANGED <<loop_alive, exit_code, bootstrap, arms, ret>>
  /\ UNCHANGED <<scopeVars, workVars, envVars, threadVars, node_isolate, emit, processVars>>

\* A Start that unregisters the isolate from the platform, then disposes it.
StartReturn_unregisters_first ==
  /\ At("returned")
  /\ node_isolate' = "null"
  /\ log' = log \o <<"free_isolate_data", "clear_node_isolate",
                      "unregister_isolate", "dispose", "free_allocator",
                      "start_return">>
  /\ pc' = "done"
  /\ UNCHANGED <<loop_alive, exit_code, bootstrap, arms, ret, emit>>
  /\ UNCHANGED <<scopeVars, workVars, envVars, threadVars, processVars>>

\* A Start that keeps the IsolateData until the isolate is disposed.
StartReturn_frees_data_late ==
  /\ At("returned")
  /\ node_isolate' = "null"
  /\ log' = log \o <<"clear_node_isolate", "dispose", "unregister_isolate",
                      "free_isolate_data", "free_allocator", "start_return">>
  /\ pc' = "done"
  /\ UNCHANGED <<loop_alive, exit_code, bootstrap, arms, ret, emit>>
  /\ UNCHANGED <<scopeVars, workVars, envVars, threadVars, processVars>>

\* Back in Start(event_loop, ...): the block that holds isolate_data ends;
\* node_isolate = nullptr; isolate->Dispose(); UnregisterIsolate(isolate);
\* return exit_code, which ends the scope of the allocator.
StartReturn ==
  /\ At("returned")
  /\ node_isolate' = "null"
  /\ log' = log \o <<"free_isolate_data", "clear_node_isolate", "dispose",
                      "unregister_isolate", "free_allocator", "start_return">>
  /\ pc' = "done"
  /\ UNCHANGED <<loop_alive, exit_code, bootstrap, arms, ret, emit>>
  /\ UNCHANGED <<scopeVars, workVars, envVars, threadVars, processVars>>

InitStart ==
  /\ pc = "new_isolate"
  /\ node_isolate = "null"
  /\ emit = NoEmit
  /\ loop_alive = FALSE
  /\ exit_code = 0
  /\ bootstrap = "pending"
  /\ arms = 0
  /\ ret = -1
  /\ log = <<>>

NextStart ==
  \/ \E a \in BOOLEAN : NewIsolateCall(a)
  \/ \E e \in BOOLEAN, o \in EmptyContextOutcomes : NewContextCall(e, o)
  \/ \E f \in BOOLEAN : EnvStart(f)
  \/ BootstrapPush
  \/ \E r1 \in {"value", "empty"}, r2 \in {"value", "empty"},
        id \in AsyncIds, n \in 0..MaxLeftover, a \in BOOLEAN, c \in ExitCodes :
       LoadEnvironmentCall(r1, r2, Leftover(id, n), a, c)
  \/ BootstrapPop
  \/ \E s \in BOOLEAN : UvRun(s)
  \/ \E a \in BOOLEAN : DrainVMTasks(a)
  \/ CheckMore
  \/ \E n \in BOOLEAN, j \in BOOLEAN : RunBeforeExit(n, j)
  \/ Recheck
  \/ \E h \in BOOLEAN, c \in ExitCodes : EmitExit(h, c)
  \/ SetCanCallIntoJsFalse
  \/ RunCleanup
  \/ RunAtExit
  \/ FinalDrainAndReturn
  \/ StartReturn

(* ======================== Start(argc, argv) ============================ *)
\* A v8_platform.Initialize that creates the platform, and its worker
\* threads, before tracing is set up.
v8_platform_Initialize_platform_first ==
  <<"new_platform", "initialize_platform", "new_tracing_agent",
    "start_tracing_agent">>

\* v8_platform.Initialize(thread_pool_size), in a build with
\* NODE_USE_V8_PLATFORM: the calls it makes, in order.
v8_platform_Initialize ==
  <<"new_tracing_agent", "start_tracing_agent", "new_platform",
    "initialize_platform">>

\* v8_platform.Dispose(), in a build with NODE_USE_V8_PLATFORM.
v8_platform_Dispose ==
  <<"platform_shutdown", "delete_platform", "destroy_tracing_agent">>

\* Start(argc, argv) up to and including Init(&args, &exec_args).
ProcessInit ==
  /\ At("main")
  /\ log' = Append(log, "init")
  /\ pc' = "init_platform"
  /\ UNCHANGED <<loop_alive, exit_code, bootstrap, arms, ret>>
  /\ UNCHANGED <<scopeVars, workVars, envVars, threadVars, node_isolate, emit, processVars>>

\* InitializeV8Platform(per_process_opts->v8_thread_pool_size).
InitializeV8Platform ==
  /\ At("init_platform")
  /\ log' = log \o v8_platform_Initialize
  /\ pc' = "v8_initialize"
  /\ UNCHANGED <<loop_alive, exit_code, bootstrap, arms, ret>>
  /\ UNCHANGED <<scopeVars, workVars, envVars, threadVars, node_isolate, emit, processVars>>

\* V8::Initialize(); Start(uv_default_loop(), args, exec_args) is next.
V8Initialize ==
  /\ At("v8_initialize")
  /\ log' = Append(log, "v8_initialize")
  /\ pc' = "new_isolate"
  /\ UNCHANGED <<loop_alive, exit_code, bootstrap, arms, ret>>
  /\ UNCHANGED <<scopeVars, workVars, envVars, threadVars, node_isolate, emit, processVars>>

\* Start(event_loop, ...) has returned exit_code:
\* v8_platform.StopTracingAgent(), then V8::Dispose().
V8Dispose ==
  /\ At("done")
  /\ log' = log \o <<"stop_tracing_agent", "v8_dispose">>
  /\ pc' = "platform_dispose"
  /\ UNCHANGED <<loop_alive, exit_code, bootstrap, arms, ret>>
  /\ UNCHANGED <<scopeVars, workVars, envVars, threadVars, node_isolate, emit, processVars>>

\* v8_platform.Dispose(); return exit_code.
ProcessReturn ==
  /\ At("platform_dispose")
  /\ log' = (log \o v8_platform_Dispose) \o <<"process_return">>
  /\ pc' = "exited"
  /\ UNCHANGED <<loop_alive, exit_code, bootstrap, arms, ret>>
  /\ UNCHANGED <<scopeVars, workVars, envVars, threadVars, node_isolate, emit, processVars>>

\* The process before Start(argc, argv) has done anything.
InitProcess ==
  /\ pc = "main"
  /\ node_isolate = "null"
  /\ emit = NoEmit
  /\ loop_alive = FALSE
  /\ exit_code = 0
  /\ bootstrap = "pending"
  /\ arms = 0
  /\ ret = -1
  /\ log = <<>>

NextProcess ==
  \/ ProcessInit
  \/ InitializeV8Platform
  \/ V8Initialize
  \/ NextStart
  \/ V8Dispose
  \/ ProcessReturn

(* ============== CreateEnvironment / FreeEnvironment / cleanup hooks ===== *)
Hooks == 1..MaxHooks

Reverse(s) == [i \in 1..Len(s) |-> s[Len(s) + 1 - i]]

Registered(hooks, h) == \E i \in 1..Len(hooks) : hooks[i] = h

\* Environment::AddCleanupHook.
AddCleanupHook(hooks, h) == Append(hooks, h)

\* Environment::RemoveCleanupHook.
RemoveCleanupHook(hooks, h) == SelectSeq(hooks, LAMBDA x : x # h)

\* A RunCleanup that runs the hooks in the order of their registration.
Environment_RunCleanup_forward(hooks) ==
  [ran |-> hooks, hooks |-> <<>>]

\* A RunCleanup that leaves the hooks it ran registered.
Environment_RunCleanup_keeps(hooks) ==
  [ran |-> Reverse(hooks), hooks |-> hooks]

\* Environment::RunCleanup: runs every registered hook, last registered
\* first, and leaves none registered.
Environment_RunCleanup(hooks) ==
  [ran |-> Reverse(hooks), hooks |-> <<>>]

NoCall == [before |-> <<>>, ran |-> <<>>]

\* calls: RunCleanup() calls so far; last: the latest, as the hooks
\* registered on entry and the hooks run; touched: a hook was added or
\* removed since the latest; in_a_row: the latest followed the one before
\* it with no hook added or removed in between; prev: the one before it,
\* kept in that case.
\* removed: the hooks that were removed and not registered again.
NoCleanup == [calls |-> 0, prev |-> NoCall, last |-> NoCall,
              touched |-> FALSE, in_a_row |-> FALSE, removed |-> {}]

\* The record of one more RunCleanup() call that found `hooks` and ran c.ran.
Called(hooks, c) ==
  [calls |-> cleanup.calls + 1,
   prev |-> IF cleanup.calls > 0 /\ ~cleanup.touched THEN cleanup.last
                                                     ELSE NoCall,
   last |-> [before |-> hooks, ran |-> c.ran],
   touched |-> FALSE,
   in_a_row |-> (cleanup.calls > 0 /\ ~cleanup.touched),
   removed |-> cleanup.removed]

\* A CreateEnvironment that hands out an Environment it has not started.
CreateEnvironment_without_start ==
  /\ ~aborted
  /\ env_state = "none"
  /\ env_state' = "live"
  /\ log' = Append(log, "env_create")
  /\ UNCHANGED <<cleanup_hooks, cleanup>>
  /\ UNCHANGED <<pc, loop_alive, exit_code, bootstrap, arms, ret,
                 node_isolate, emit>>
  /\ UNCHANGED <<scopeVars, workVars, threadVars, processVars>>

\* CreateEnvironment: new Environment(isolate_data, context); env->Start().
CreateEnvironment ==
  /\ ~aborted
  /\ env_state = "none"
  /\ env_state' = "live"
  /\ log' = log \o <<"env_create", "env_start">>
  /\ UNCHANGED <<cleanup_hooks, cleanup>>
  /\ UNCHANGED <<pc, loop_alive, exit_code, bootstrap, arms, ret,
                 node_isolate, emit>>
  /\ UNCHANGED <<scopeVars, workVars, threadVars, processVars>>

\* AddEnvironmentCleanupHook: CHECK_NOT_NULL(env); env->AddCleanupHook. A
\* hook is registered at most once at a time.
AddEnvironmentCleanupHook(h) ==
  /\ ~aborted
  /\ env_state \in {"none", "live"}
  /\ ~Registered(cleanup_hooks, h)
  /\ IF env_state = "none"
       THEN /\ aborted' = TRUE
            /\ UNCHANGED <<cleanup_hooks, cleanup>>
       ELSE /\ cleanup_hooks' = AddCleanupHook(cleanup_hooks, h)
            /\ cleanup' = [cleanup EXCEPT !.touched = TRUE,
                                          !.removed = @ \ {h}]
            /\ UNCHANGED aborted
  /\ UNCHANGED env_state
  /\ UNCHANGED <<async_ids_stack, scopes, hist, can_call_into_js, last>>
  /\ UNCHANGED <<workVars, threadVars, startVars, processVars>>

\* RemoveEnvironmentCleanupHook: CHECK_NOT_NULL(env);
\* env->RemoveCleanupHook.
RemoveEnvironmentCleanupHook(h) ==
  /\ ~aborted
  /\ env_state \in {"none", "live"}
  /\ env_state = "live" => Registered(cleanup_hooks, h)
  /\ IF env_state = "none"
       THEN /\ aborted' = TRUE
            /\ UNCHANGED <<cleanup_hooks, cleanup>>
       ELSE /\ cleanup_hooks' = RemoveCleanupHook(cleanup_hooks, h)
            /\ cleanup' = [cleanup EXCEPT !.touched = TRUE,
                                          !.removed = @ \cup {h}]
            /\ UNCHANGED aborted
  /\ UNCHANGED env_state
  /\ UNCHANGED <<async_ids_stack, scopes, hist, can_call_into_js, last>>
  /\ UNCHANGED <<workVars, threadVars, startVars, processVars>>

\* LoadEnvironment(env), called by the embedder on the Environment it
\* created, before it registers cleanup hooks: the bootstrap may fail and
\* leave the Environment partly set up.
EmbedderLoadEnvironment(r1, r2, leftover) ==
  /\ ~aborted
  /\ env_state = "live"
  /\ bootstrap = "pending"
  /\ cleanup = NoCleanup /\ cleanup_hooks = <<>>
  /\ LET l == LoadEnvironment(async_ids_stack, r1, r2, leftover)
     IN /\ async_ids_stack' = l.stack
        /\ bootstrap' = IF ~l.failed THEN "ok"
                        ELSE IF r1 = "empty" THEN "failed_loaders"
                        ELSE "failed_node"
        /\ log' = log \o l.calls
  /\ UNCHANGED <<pc, loop_alive, exit_code, arms, ret, node_isolate, emit>>
  /\ UNCHANGED <<scopes, hist, can_call_into_js, aborted, last>>
  /\ UNCHANGED <<workVars, threadVars, envVars, processVars>>

\* env->RunCleanup(), called on a live Environment.
EnvironmentRunCleanup ==
  /\ ~aborted
  /\ env_state = "live"
  /\ cleanup.calls < MaxCleanups
  /\ LET c == Environment_RunCleanup(cleanup_hooks)
     IN /\ cleanup_hooks' = c.hooks
        /\ cleanup' = Called(cleanup_hooks, c)
  /\ log' = Append(log, "run_cleanup")
  /\ UNCHANGED env_state
  /\ UNCHANGED <<pc, loop_alive, exit_code, bootstrap, arms, ret,
                 node_isolate, emit>>
  /\ UNCHANGED <<scopeVars, workVars, threadVars, processVars>>

\* FreeEnvironment: env->RunCleanup(); delete env.
FreeEnvironment ==
  /\ ~aborted
  /\ env_state = "live"
  /\ LET c == Environment_RunCleanup(cleanup_hooks)
     IN /\ cleanup_hooks' = c.hooks
        /\ cleanup' = Called(cleanup_hooks, c)
  /\ env_state' = "deleted"
  /\ log' = log \o <<"run_cleanup", "env_destroy">>
  /\ UNCHANGED <<pc, loop_alive, exit_code, bootstrap, arms, ret,
                 node_isolate, emit>>
  /\ UNCHANGED <<scopeVars, workVars, threadVars, processVars>>

InitEnv ==
  /\ env_state = "none"
  /\ cleanup_hooks = <<>>
  /\ cleanup = NoCleanup

NextEnv ==
  \/ CreateEnvironment
  \/ \E h \in Hooks : AddEnvironmentCleanupHook(h)
  \/ \E h \in Hooks : RemoveEnvironmentCleanupHook(h)
  \/ \E r1 \in {"value", "empty"}, r2 \in {"value", "empty"},
        id \in AsyncIds, n \in 0..MaxLeftover :
       EmbedderLoadEnvironment(r1, r2, Leftover(id, n))
  \/ EnvironmentRunCleanup
  \/ FreeEnvironment

(* ============ Start(event_loop, ...) called on several threads ========= *)
Threads == 1..MaxThreads

\* The isolate thread t allocated, as node_isolate names it.
IsolateOf(t) == <<"isolate_1", "isolate_2", "isolate_3", "isolate_4">>[t]

\* A Start that overwrites node_isolate whatever it holds.
CheckNull_off(current) == TRUE

\* CHECK_NULL(node_isolate).
CheckNull(current) == current = "null"

\* CHECK_EQ(node_isolate, isolate).
CheckEq(current, isolate) == current = isolate

Goes(t, p) == tpc' = [tpc EXCEPT ![t] = p]

\* Isolate* const isolate = NewIsolate(...); if (isolate == nullptr)
\* return 12.
ThreadNewIsolate(t, allocated) ==
  /\ ~aborted
  /\ tpc[t] = "idle"
  /\ starts[t] < MaxStarts
  /\ starts' = [starts EXCEPT ![t] = @ + 1]
  /\ Goes(t, IF allocated THEN "lock_set" ELSE "idle")
  /\ UNCHANGED mutex
  /\ UNCHANGED <<scopeVars, workVars, startVars, envVars, processVars>>

\* Mutex::ScopedLock scoped_lock(node_isolate_mutex), before the write.
ThreadLockForSet(t) ==
  /\ ~aborted
  /\ tpc[t] = "lock_set"
  /\ mutex = 0
  /\ mutex' = t
  /\ Goes(t, "check_set")
  /\ UNCHANGED starts
  /\ UNCHANGED <<scopeVars, workVars, startVars, envVars, processVars>>

\* CHECK_NULL(node_isolate); node_isolate = isolate; the lock is released
\* at the end of the block.
ThreadSetNodeIsolate(t) ==
  /\ ~aborted
  /\ tpc[t] = "check_set"
  /\ IF CheckNull(node_isolate)
       THEN /\ node_isolate' = IsolateOf(t)
            /\ mutex' = 0
            /\ Goes(t, "run")
            /\ UNCHANGED aborted
       ELSE /\ aborted' = TRUE
            /\ UNCHANGED <<node_isolate, mutex, tpc>>
  /\ UNCHANGED starts
  /\ UNCHANGED <<pc, loop_alive, exit_code, bootstrap, arms, ret, log, emit>>
  /\ UNCHANGED <<async_ids_stack, scopes, hist, can_call_into_js, last>>
  /\ UNCHANGED <<workVars, envVars, processVars>>

\* exit_code = Start(isolate, isolate_data.get(), args, exec_args): the
\* per-isolate Start runs and returns.
ThreadRunStart(t) ==
  /\ ~aborted
  /\ tpc[t] = "run"
  /\ Goes(t, "lock_clear")
  /\ UNCHANGED <<mutex, starts>>
  /\ UNCHANGED <<scopeVars, workVars, startVars, envVars, processVars>>

\* Mutex::ScopedLock scoped_lock(node_isolate_mutex), before the clearing.
ThreadLockForClear(t) ==
  /\ ~aborted
  /\ tpc[t] = "lock_clear"
  /\ mutex = 0
  /\ mutex' = t
  /\ Goes(t, "check_clear")
  /\ UNCHANGED starts
  /\ UNCHANGED <<scopeVars, workVars, startVars, envVars, processVars>>

\* CHECK_EQ(node_isolate, isolate); node_isolate = nullptr; the lock is
\* released at the end of the block.
ThreadClearNodeIsolate(t) ==
  /\ ~aborted
  /\ tpc[t] = "check_clear"
  /\ IF CheckEq(node_isolate, IsolateOf(t))
       THEN /\ node_isolate' = "null"
            /\ mutex' = 0
            /\ Goes(t, "dispose")
            /\ UNCHANGED aborted
       ELSE /\ aborted' = TRUE
            /\ UNCHANGED <<node_isolate, mutex, tpc>>
  /\ UNCHANGED starts
  /\ UNCHANGED <<pc, loop_alive, exit_code, bootstrap, arms, ret, log, emit>>
  /\ UNCHANGED <<async_ids_stack, scopes, hist, can_call_into_js, last>>
  /\ UNCHANGED <<workVars, envVars, processVars>>

\* isolate->Dispose(); UnregisterIsolate(isolate); return exit_code.
ThreadDispose(t) ==
  /\ ~aborted
  /\ tpc[t] = "dispose"
  /\ Goes(t, "idle")
  /\ UNCHANGED <<mutex, starts>>
  /\ UNCHANGED <<scopeVars, workVars, startVars, envVars, processVars>>

InitThreads ==
  /\ tpc = [t \in Threads |-> "idle"]
  /\ mutex = 0
  /\ starts = [t \in Threads |-> 0]

NextThreads ==
  \E t \in Threads :
    \/ \E a \in BOOLEAN : ThreadNewIsolate(t, a)
    \/ ThreadLockForSet(t)
    \/ ThreadSetNodeIsolate(t)
    \/ ThreadRunStart(t)
    \/ ThreadLockForClear(t)
    \/ ThreadClearNodeIsolate(t)
    \/ ThreadDispose(t)

(* ============ lib/internal/process/main_thread_only.js ================= *)
\* Event names used on process: two signal names and one other event.
Events == {"SIGINT", "SIGTERM", "message"}

\* internalBinding('constants').os.signals: the names it has an entry for.
constants == {"SIGINT", "SIGTERM"}

isSignal(event) == event \in constants

\* A libuv error code, as wrap.start may return it.
UV_EINVAL == -22

NoJs == [op |-> "none", arg |-> "none", threw |-> "none", native_calls |-> 0,
         returned |-> -1, bad |-> FALSE, validated |-> 0, value |-> -1]

\* A 'newListener' handler that does not look whether a wrap is recorded.
newListener_unguarded(type, wraps, open, err) ==
  IF isSignal(type)
    THEN IF err # 0
           THEN [signalWraps |-> wraps, handles |-> open,
                 threw |-> "uv_signal_start"]
           ELSE [signalWraps |-> wraps \cup {type},
                 handles |-> [open EXCEPT ![type] = @ + 1], threw |-> "none"]
    ELSE [signalWraps |-> wraps, handles |-> open, threw |-> "none"]

\* The 'newListener' handler: for a signal name without a recorded wrap, a
\* Signal handle is created and started with the signal's number; if the
\* start fails it is closed again and errnoException is thrown, otherwise it
\* is recorded under the name.
newListener(type, wraps, open, err) ==
  IF isSignal(type) /\ type \notin wraps
    THEN LET created == [open EXCEPT ![type] = @ + 1]
         IN IF err # 0
              THEN [signalWraps |-> wraps,
                    handles |-> [created EXCEPT ![type] = @ - 1],
                    threw |-> "uv_signal_start"]
              ELSE [signalWraps |-> wraps \cup {type}, handles |-> created,
                    threw |-> "none"]
    ELSE [signalWraps |-> wraps, handles |-> open, threw |-> "none"]

\* The 'removeListener' handler: a recorded wrap is closed and forgotten
\* when no listener for the name is left.
removeListener(type, wraps, open, listenerCount) ==
  IF type \in wraps /\ listenerCount = 0
    THEN [signalWraps |-> wraps \ {type},
          handles |-> [open EXCEPT ![type] = @ - 1]]
    ELSE [signalWraps |-> wraps, handles |-> open]

\* The orders in which process.eventNames() may list the names in S.
Orders(S) ==
  {o \in [1..Cardinality(S) -> S] :
     \A i, j \in 1..Cardinality(S) : o[i] = o[j] => i = j}

\* process.eventNames().forEach(...): 'newListener' is emitted for each
\* signal name that already has listeners; a throw ends the loop.
RECURSIVE Rearm(_, _, _, _)
Rearm(evs, wraps, open, failing) ==
  IF evs = <<>>
    THEN [signalWraps |-> wraps, handles |-> open, threw |-> "none"]
    ELSE LET ev == Head(evs)
             n == IF isSignal(ev)
                    THEN newListener(ev, wraps, open,
                                     IF ev \in failing THEN UV_EINVAL ELSE 0)
                    ELSE [signalWraps |-> wraps, handles |-> open,
                          threw |-> "none"]
         IN IF n.threw # "none"
              THEN n
              ELSE Rearm(Tail(evs), n.signalWraps, n.handles, failing)

\* setupSignalHandlers(internalBinding): the two handlers are registered,
\* then the names that already have listeners are re-armed.
SetupSignalHandlers(order, failing) ==
  /\ signals_setup = "no"
  /\ order \in Orders({e \in Events : listeners[e] > 0})
  /\ LET r == Rearm(order, signalWraps, handles, failing)
     IN /\ signalWraps' = r.signalWraps
        /\ handles' = r.handles
        /\ signals_setup' = IF r.threw = "none" THEN "done" ELSE "threw"
        /\ js' = [NoJs EXCEPT !.op = "setupSignalHandlers", !.threw = r.threw]
  /\ UNCHANGED <<listeners, creds, mask, hr>>
  /\ UNCHANGED <<scopeVars, workVars, startVars, envVars, threadVars>>

\* process.on(type, listener): 'newListener' is emitted, to the handler
\* above once it is registered, before the listener is added; a handler
\* that throws keeps the listener from being added.
ProcessOn(type, err) ==
  /\ signals_setup # "threw"
  /\ listeners[type] < MaxListeners
  /\ LET n == IF signals_setup = "done"
                THEN newListener(type, signalWraps, handles, err)
                ELSE [signalWraps |-> signalWraps, handles |-> handles,
                      threw |-> "none"]
     IN /\ signalWraps' = n.signalWraps
        /\ handles' = n.handles
        /\ listeners' = IF n.threw = "none"
                          THEN [listeners EXCEPT ![type] = @ + 1]
                          ELSE listeners
        /\ js' = [NoJs EXCEPT !.op = "on", !.arg = type, !.threw = n.threw]
  /\ UNCHANGED <<signals_setup, creds, mask, hr>>
  /\ UNCHANGED <<scopeVars, workVars, startVars, envVars, threadVars>>

\* process.removeListener(type, listener) of a registered listener: the
\* listener is removed, then 'removeListener' is emitted.
ProcessRemoveListener(type) ==
  /\ signals_setup # "threw"
  /\ listeners[type] > 0
  /\ listeners' = [listeners EXCEPT ![type] = @ - 1]
  /\ LET r == IF signals_setup = "done"
                THEN removeListener(type, signalWraps, handles,
                                    listeners'[type])
                ELSE [signalWraps |-> signalWraps, handles |-> handles]
     IN /\ signalWraps' = r.signalWraps
        /\ handles' = r.handles
  /\ js' = [NoJs EXCEPT !.op = "removeListener", !.arg = type]
  /\ UNCHANGED <<signals_setup, creds, mask, hr>>
  /\ UNCHANGED <<scopeVars, workVars, startVars, envVars, threadVars>>

InitSignals ==
  /\ listeners = [e \in Events |-> 0]
  /\ signalWraps = {}
  /\ handles = [e \in Events |-> 0]
  /\ signals_setup = "no"

NextSignals ==
  \/ \E S \in SUBSET Events, F \in SUBSET constants :
       \E o \in Orders(S) : SetupSignalHandlers(o, F)
  \/ \E e \in Events, err \in {0, UV_EINVAL} : ProcessOn(e, err)
  \/ \E e \in Events : ProcessRemoveListener(e)

(* --------------------- wrapPosixCredentialSetters ---------------------- *)
\* Values a caller may pass as an id, written as JS literals.
IdValues == {"0", "-1", "1.5", "'nobody'", "undefined", "{}"}

typeof(v) ==
  CASE v \in {"0", "-1", "1.5"} -> "number"
    [] v = "'nobody'" -> "string"
    [] v = "undefined" -> "undefined"
    [] OTHER -> "object"

\* Whether v is an integer number in [0, 2^32).
isUint32(v) == v = "0"

\* validateUint32(value, name): what it throws.
validateUint32(v) == IF isUint32(v) THEN "none" ELSE "ERR_OUT_OF_RANGE"

\* A validateId that takes any number.
validateId_any_number(id) ==
  IF typeof(id) = "number"
    THEN "none"
    ELSE IF typeof(id) # "string" THEN "ERR_INVALID_ARG_TYPE" ELSE "none"

\* validateId(id, name): what it throws, "none" if it returns.
validateId(id) ==
  IF typeof(id) = "number"
    THEN validateUint32(id)
    ELSE IF typeof(id) # "string" THEN "ERR_INVALID_ARG_TYPE" ELSE "none"

\* The for loop of setgroups: the first element that fails ends it.
RECURSIVE validateGroups(_)
validateGroups(groups) ==
  IF groups = <<>>
    THEN "none"
    ELSE LET e == validateId(Head(groups))
         IN IF e # "none" THEN e ELSE validateGroups(Tail(groups))

ValidationErrors == {"ERR_INVALID_ARG_TYPE", "ERR_OUT_OF_RANGE"}

\* What the claim calls a valid id: a uint32 number or a string.
IsId(v) == isUint32(v) \/ typeof(v) = "string"

IdSetters == {"setegid", "seteuid", "setgid", "setuid"}

\* The credential a setter sets.
FieldOf(setter) ==
  CASE setter = "setegid" -> "egid"
    [] setter = "seteuid" -> "euid"
    [] setter = "setgid" -> "gid"
    [] setter = "setuid" -> "uid"

\* What a native credential function does: it succeeds (0), reports an
\* unknown name (a positive result), or throws an errno exception.
NativeOutcomes == {"ok", "unknown", "errno"}

\* The call has ended with what the native function did.
NativeDone(op, outcome, bad, set) ==
  /\ creds' = IF outcome = "ok" THEN set ELSE creds
  /\ js' = [NoJs EXCEPT !.op = op, !.native_calls = 1, !.bad = bad,
               !.threw = CASE outcome = "ok" -> "none"
                           [] outcome = "unknown" -> "ERR_UNKNOWN_CREDENTIAL"
                           [] OTHER -> "errno"]

\* The call has ended in a validation error.
Rejected(op, e, bad) ==
  /\ creds' = creds
  /\ js' = [NoJs EXCEPT !.op = op, !.threw = e, !.bad = bad]

\* process.setuid / seteuid / setgid / setegid (id): wrapIdSetter's function.
SetId(setter, id, outcome) ==
  /\ LET e == validateId(id)
     IN IF e # "none"
          THEN outcome = "ok" /\ Rejected(setter, e, ~IsId(id))
          ELSE NativeDone(setter, outcome, ~IsId(id),
                          [creds EXCEPT ![FieldOf(setter)] = id])
  /\ UNCHANGED <<listeners, signalWraps, handles, signals_setup, mask, hr>>
  /\ UNCHANGED <<scopeVars, workVars, startVars, envVars, threadVars>>

\* process.initgroups(user, extraGroup).
InitGroups(user, extraGroup, outcome) ==
  /\ LET e1 == validateId(user)
         e2 == validateId(extraGroup)
         bad == ~IsId(user) \/ ~IsId(extraGroup)
     IN IF e1 # "none"
          THEN outcome = "ok" /\ Rejected("initgroups", e1, bad)
          ELSE IF e2 # "none"
            THEN outcome = "ok" /\ Rejected("initgroups", e2, bad)
            ELSE NativeDone("initgroups", outcome, bad,
                            [creds EXCEPT !.groups = <<user, extraGroup>>])
  /\ UNCHANGED <<listeners, signalWraps, handles, signals_setup, mask, hr>>
  /\ UNCHANGED <<scopeVars, workVars, startVars, envVars, threadVars>>

\* process.setgroups(groups), groups being an array.
SetGroups(groups, outcome) ==
  /\ LET e == validateGroups(groups)
         bad == \E i \in 1..Len(groups) : ~IsId(groups[i])
     IN IF e # "none"
          THEN outcome = "ok" /\ Rejected("setgroups", e, bad)
          ELSE NativeDone("setgroups", outcome, bad,
                          [creds EXCEPT !.groups = groups])
  /\ UNCHANGED <<listeners, signalWraps, handles, signals_setup, mask, hr>>
  /\ UNCHANGED <<scopeVars, workVars, startVars, envVars, threadVars>>

\* process.setgroups(groups), groups not being an array.
SetGroupsNoArray(groups) ==
  /\ Rejected("setgroups", "ERR_INVALID_ARG_TYPE", TRUE)
  /\ UNCHANGED <<listeners, signalWraps, handles, signals_setup, mask, hr>>
  /\ UNCHANGED <<scopeVars, workVars, startVars, envVars, threadVars>>

\* Arrays of at most MaxGroups ids.
GroupArrays == UNION {[1..n -> IdValues] : n \in 0..MaxGroups}

InitCredentials ==
  creds = [uid |-> "1000", euid |-> "1000", gid |-> "1000", egid |-> "1000",
           groups |-> <<>>]

NextCredentials ==
  \/ \E m \in IdSetters, id \in IdValues, o \in NativeOutcomes :
       SetId(m, id, o)
  \/ \E u \in IdValues, g \in IdValues, o \in NativeOutcomes :
       InitGroups(u, g, o)
  \/ \E gs \in GroupArrays, o \in NativeOutcomes : SetGroups(gs, o)
  \/ \E v \in IdValues : SetGroupsNoArray(v)

(* ------------------------------ process.umask ------------------------- *)
\* The file permission bits: 0777.
S_IRWXUGO == 511

\* umask(cmask) of the C library: the permission bits of cmask become the
\* mask, the previous mask is returned.
umask(m, cmask) == [mask |-> cmask % (S_IRWXUGO + 1), old |-> m]

\* A JS value passed as mask: undefined, a number, a string of digits, or
\* something else.
ModeValue(type, n, digits) == [type |-> type, n |-> n, digits |-> digits]

Undefined == ModeValue("undefined", 0, <<>>)

DigitStrings == UNION {[1..k -> {0, 2, 7, 8}] : k \in 0..MaxOctalDigits}

ModeValues ==
  {Undefined, ModeValue("object", 0, <<>>)}
    \cup {ModeValue("number", n, <<>>) : n \in {-1, 0, 18, S_IRWXUGO}}
    \cup {ModeValue("string", 0, d) : d \in DigitStrings}

\* parseInt(value, 8) of a string of octal digits.
RECURSIVE parseOctal(_)
parseOctal(digits) ==
  IF digits = <<>>
    THEN 0
    ELSE parseOctal(SubSeq(digits, 1, Len(digits) - 1)) * 8
           + digits[Len(digits)]

\* validateMode(value, name): the mask it returns, or what it throws.
validateMode(v) ==
  CASE v.type = "number" ->
         IF v.n >= 0 THEN [threw |-> "none", value |-> v.n]
                     ELSE [threw |-> "ERR_OUT_OF_RANGE", value |-> -1]
    [] v.type = "string" ->
         IF v.digits # <<>> /\ \A i \in 1..Len(v.digits) : v.digits[i] \in 0..7
           THEN [threw |-> "none", value |-> parseOctal(v.digits)]
           ELSE [threw |-> "ERR_INVALID_ARG_VALUE", value |-> -1]
    [] OTHER -> [threw |-> "ERR_INVALID_ARG_VALUE", value |-> -1]

\* An Umask that reads the mask and does not put it back.
Umask_no_restore(m, undefined, oct) ==
  IF undefined
    THEN LET a == umask(m, 0)
         IN [mask |-> a.mask, returned |-> a.old]
    ELSE LET a == umask(m, oct)
         IN [mask |-> a.mask, returned |-> a.old]

\* Umask(args): with undefined the mask is read by setting it to 0 and set
\* back; with a uint32 it is set. The previous mask is returned.
Umask(m, undefined, oct) ==
  IF undefined
    THEN LET a == umask(m, 0)
             b == umask(a.mask, a.old)
         IN [mask |-> b.mask, returned |-> a.old]
    ELSE LET a == umask(m, oct)
         IN [mask |-> a.mask, returned |-> a.old]

\* process.umask(mask).
ProcessUmask(v) ==
  /\ IF v = Undefined
       THEN LET u == Umask(mask, TRUE, 0)
            IN /\ mask' = u.mask
               /\ js' = [NoJs EXCEPT !.op = "umask", !.arg = v.type,
                            !.native_calls = 1, !.returned = u.returned]
       ELSE LET c == validateMode(v)
                u == Umask(mask, FALSE, c.value)
            IN IF c.threw # "none"
                 THEN /\ mask' = mask
                      /\ js' = [NoJs EXCEPT !.op = "umask", !.arg = v.type,
                                   !.threw = c.threw, !.validated = 1]
                 ELSE /\ mask' = u.mask
                      /\ js' = [NoJs EXCEPT !.op = "umask", !.arg = v.type,
                                   !.validated = 1, !.value = c.value,
                                   !.native_calls = 1,
                                   !.returned = u.returned]
  /\ UNCHANGED <<listeners, signalWraps, handles, signals_setup, creds, hr>>
  /\ UNCHANGED <<scopeVars, workVars, startVars, envVars, threadVars>>

InitUmask == mask = 18

NextUmask == \E v \in ModeValues : ProcessUmask(v)

(* -------------------------------- Hrtime ----------------------------- *)
\* Unsigned integers are sequences of bytes, least significant first: a
\* uint64_t has 8, a uint32_t has 4.
Zero64 == <<0, 0, 0, 0, 0, 0, 0, 0>>

Zero32 == <<0, 0, 0, 0>>

\* NANOS_PER_SEC, 1000000000 = 0x3B9ACA00.
NANOS_PER_SEC == 1000000000

\* t / NANOS_PER_SEC and t % NANOS_PER_SEC of a uint64_t t, by long
\* division from bit 63 down to bit 0.
RECURSIVE Divide(_, _, _, _)
Divide(t, bit, q, r) ==
  IF bit < 0
    THEN [q |-> q, r |-> r]
    ELSE LET i == (bit \div 8) + 1
             w == 2 ^ (bit % 8)
             r2 == 2 * r + ((t[i] \div w) % 2)
         IN IF r2 >= NANOS_PER_SEC
              THEN Divide(t, bit - 1, [q EXCEPT ![i] = @ + w],
                          r2 - NANOS_PER_SEC)
              ELSE Divide(t, bit - 1, q, r2)

\* A number below 2^31 as a uint64_t.
ToUint64(n) == [i \in 1..8 |-> IF i <= 4 THEN (n \div (256 ^ (i - 1))) % 256
                                        ELSE 0]

\* v >> 32 of a uint64_t.
ShiftRight32(v) == [i \in 1..8 |-> IF i <= 4 THEN v[i + 4] ELSE 0]

\* v & 0xffffffff of a uint64_t.
Low32(v) == [i \in 1..8 |-> IF i <= 4 THEN v[i] ELSE 0]

\* Storing a uint64_t into a uint32_t keeps the low 32 bits.
Store32(v) == SubSeq(v, 1, 4)

\* The three uint64_t values Hrtime computes from t.
HrtimeValues_no_shift(t) ==
  LET d == Divide(t, 63, Zero64, 0)
  IN <<d.q, Low32(d.q), ToUint64(d.r)>>

HrtimeValues(t) ==
  LET d == Divide(t, 63, Zero64, 0)
  IN <<ShiftRight32(d.q), Low32(d.q), ToUint64(d.r)>>

\* The Uint32Array is zero-filled until Hrtime has been called.
NoHr == [t |-> Zero64, values |-> <<Zero64, Zero64, Zero64>>,
         fields |-> <<Zero32, Zero32, Zero32>>, called |-> FALSE]

\* Hrtime(args): fields[0..2] of the Uint32Array are stored.
Hrtime ==
  /\ ~hr.called
  /\ LET v == HrtimeValues(hr.t)
     IN hr' = [hr EXCEPT !.values = v,
                         !.fields = <<Store32(v[1]), Store32(v[2]),
                                      Store32(v[3])>>,
                         !.called = TRUE]
  /\ UNCHANGED <<listeners, signalWraps, handles, signals_setup, creds,
                 mask, js>>
  /\ UNCHANGED <<scopeVars, workVars, startVars, envVars, threadVars>>

\* The sets of at most k bit positions of a uint64_t.
RECURSIVE BitSets(_)
BitSets(k) ==
  IF k = 0
    THEN {{}}
    ELSE LET P == BitSets(k - 1)
         IN P \cup {S \cup {b} : S \in P, b \in 0..63}

RECURSIVE SumBits(_)
SumBits(S) ==
  IF S = {}
    THEN 0
    ELSE LET b == CHOOSE x \in S : TRUE
         IN 2 ^ b + SumBits(S \ {b})

\* The uint64_t with exactly the bits of S set.
FromBits(S) ==
  [i \in 1..8 |-> SumBits({b - 8 * (i - 1) : b \in {x \in S : x \div 8 = i - 1}})]

\* ~v of a uint64_t.
Complement(v) == [i \in 1..8 |-> 255 - v[i]]

\* The values of uv_hrtime() the calls are made with: few bits set, few
\* bits clear (2^64 - 1 among them), and the values around one second and
\* around 2^32 seconds.
Times ==
  {FromBits(S) : S \in BitSets(MaxSetBits)}
    \cup {Complement(FromBits(S)) : S \in BitSets(MaxSetBits)}
    \cup {<<255, 201, 154, 59, 0, 0, 0, 0>>, <<0, 202, 154, 59, 0, 0, 0, 0>>,
          <<255, 255, 255, 255, 255, 201, 154, 59>>,
          <<0, 0, 0, 0, 0, 202, 154, 59>>}

InitHrtime == hr = NoHr

\* uv_hrtime() stands at any of Times.
InitClock == hr \in {[NoHr EXCEPT !.t = t] : t \in Times}

NextHrtime == Hrtime

\* The process object before anything has been called on it.
InitProcessObject ==
  /\ InitSignals
  /\ InitCredentials
  /\ InitUmask
  /\ InitHrtime
  /\ js = NoJs

(* ============================ specifications =========================== *)
Init ==
  /\ InitScope /\ InitWork /\ InitStart /\ InitEnv /\ InitThreads
  /\ InitProcessObject

\* Callback scopes and InternalMakeCallback.
SpecScope == Init /\ [][NextScope]_vars

\* Callback scopes with async ids pushed and popped by hand.
SpecTamper == Init /\ [][NextTamper]_vars

\* ThreadPoolWork units, the thread pool and the loop thread.
SpecWork == Init /\ [][NextWork]_vars

\* One run of Start(isolate, isolate_data, args, exec_args).
SpecStart == Init /\ [][NextStart]_vars

\* One run of Start in which every call it makes returns.
SpecStartFair == SpecStart /\ WF_vars(NextStart)

\* An embedder's Environment: creation, cleanup hooks, RunCleanup, freeing.
SpecEnv == Init /\ [][NextEnv]_vars

\* An Environment on either entry path: the one Start builds and runs, or
\* the one an embedder creates with CreateEnvironment.
NextEntry ==
  \/ NextStart /\ env_state = "none"
  \/ NextEnv /\ pc = "new_isolate"

SpecEntry == Init /\ [][NextEntry]_vars

\* Start(event_loop, ...) called on several threads of one process.
SpecThreads == Init /\ [][NextThreads]_vars

\* The whole process: Start(argc, argv) around Start(event_loop, ...).
InitMain ==
  /\ InitScope /\ InitWork /\ InitProcess /\ InitEnv /\ InitThreads
  /\ InitProcessObject

SpecProcess == InitMain /\ [][NextProcess]_vars

\* Listeners for signal events on process.
SpecSignals == Init /\ [][NextSignals]_vars

\* Calls of the POSIX credential setters.
SpecCredentials == Init /\ [][NextCredentials]_vars

\* Calls of process.umask.
SpecUmask == Init /\ [][NextUmask]_vars

\* One call of Hrtime at each value of the clock.
InitAtClock ==
  /\ InitScope /\ InitWork /\ InitStart /\ InitEnv /\ InitThreads
  /\ InitSignals /\ InitCredentials /\ InitUmask /\ js = NoJs
  /\ InitClock

SpecHrtime == InitAtClock /\ [][NextHrtime]_vars

\* The thread pool runs what is queued, DoThreadPoolWork returns, the loop
\* delivers posted completions, and calls made on the loop thread return.
FairWork ==
  \A u \in Units :
    /\ WF_vars(ScheduleWorkSubmit(u))
    /\ WF_vars(WorkerStart(u))
    /\ WF_vars(WorkerFinish(u))
    /\ WF_vars(LoopDone(u))
    /\ WF_vars(AfterReturn(u))

SpecWorkFair == SpecWork /\ FairWork

(* ======================= claims: callback scopes ======================= *)
\* The async-id stack as it stands right above live scope i.
Above(i) == IF i = Top THEN async_ids_stack ELSE hist[i + 1].pre

PushedBy(s) == IF s.pushed_ids_ THEN 1 ELSE 0

Destroyed == last.op \in {"destroy", "imc_return"} \/
             (last.op = "imc_enter" /\ last.ret = "empty" /\ ~aborted)

\* C1: every scope pops the pair it pushed exactly once: while a scope is
\* open the stack above it is its pre-construction stack plus its pair; once
\* it is closed, and when it has been destroyed, the stack is again exactly
\* the pre-construction stack, marked as failed or not.
C1_StackBalance ==
  /\ \A i \in 1..Top :
       LET s == scopes[i]
           h == hist[i]
       IN /\ h.pops = IF s.closed_ THEN PushedBy(s) ELSE 0
          /\ Above(i) = IF s.closed_ \/ ~s.pushed_ids_
                          THEN h.pre
                          ELSE Append(h.pre, <<s.async_id, trigger_of(s.async_id)>>)
  /\ (Destroyed /\ ~aborted) =>
       /\ last.balanced
       /\ last.scope.closed_
       /\ last.h.pops = PushedBy(last.scope)

\* C1 witness: a nested scope that pushed, was marked failed and was
\* destroyed, leaving the stack as it was before it.
C1_Witness ==
  /\ last.op = "destroy"
  /\ last.h.marked
  /\ last.scope.pushed_ids_
  /\ last.h.pops = 1
  /\ last.balanced
  /\ Top >= 1
  /\ ~scopes[Top].closed_

Min(a, b) == IF a < b THEN a ELSE b

C2_Step ==
  /\ \A i \in 1..Min(Len(scopes), Len(scopes')) :
       /\ scopes[i].failed_ => scopes'[i].failed_
       /\ scopes[i].closed_ =>
            /\ scopes'[i].closed_
            /\ hist'[i].pops = hist[i].pops
            /\ hist'[i].flushes = hist[i].flushes
  /\ Len(scopes') < Len(scopes) =>
       /\ last'.scope.closed_
       /\ last'.h.pops <= 1
       /\ last'.h.flushes <= 1
       /\ scopes[Top].failed_ => last'.scope.failed_
       /\ scopes[Top].closed_ =>
            /\ last'.h.pops = hist[Top].pops
            /\ last'.h.flushes = hist[Top].flushes
            /\ async_ids_stack' = async_ids_stack

\* C2: a scope is closed once: a step never pops or flushes for a scope that
\* is already closed, never reopens it, never clears failed_, and a scope is
\* closed when it is destroyed, with at most one pop and one flush in all.
C2_ClosedOnce == [][C2_Step]_vars

\* C2 witness: InternalMakeCallback closed its scope explicitly, the
\* destructor followed, and the scope popped and flushed once.
C2_Witness ==
  /\ last.op = "imc_return"
  /\ last.ret = "value"
  /\ last.h.pops = 1
  /\ last.h.flushes = 1

\* C3: a scope marked as failed before it is closed ends failed, pops its
\* pair and flushes nothing; InternalMakeCallback then returns empty.
C3_FailedSkipsFlush ==
  /\ \A i \in 1..Top :
       hist[i].marked =>
         /\ scopes[i].failed_
         /\ hist[i].flushes = 0
         /\ scopes[i].closed_ => hist[i].pops = PushedBy(scopes[i])
  /\ (Destroyed /\ ~aborted /\ last.h.marked) =>
       /\ last.scope.failed_
       /\ last.scope.closed_
       /\ last.h.flushes = 0
       /\ last.h.pops = PushedBy(last.scope)
       /\ last.op = "imc_return" => last.ret = "empty"

\* C3 witness: the callback returned empty, InternalMakeCallback marked the
\* scope failed, and the destructor popped without flushing.
C3_Witness ==
  /\ last.op = "imc_return"
  /\ last.h.marked
  /\ last.scope.failed_
  /\ last.h.pops = 1
  /\ last.h.flushes = 0

\* C4: a pop whose id is not the id on top of a non-empty async-id stack
\* never returns: the process is aborted.
C4_MismatchIsFatal == last.mismatch => aborted

\* C4 witness: a pop by hand of an id that is not on top aborted.
C4_Witness ==
  /\ last.op = "pop"
  /\ last.mismatch
  /\ aborted
  /\ Len(async_ids_stack) >= 2

\* C5: constructing a scope with kRequireResource and no resource, directly
\* or through InternalMakeCallback, aborts; no such scope ever exists.
C5_RequireResourceIsFatal ==
  /\ (last.op \in {"ctor", "imc_enter"} /\ last.require_empty) => aborted
  /\ \A i \in 1..Top :
       ~(hist[i].expect = kRequireResource /\ scopes[i].object_empty)

\* C5 witness: InternalMakeCallback was called without a receiver, inside a
\* running callback, and aborted.
C5_Witness ==
  /\ last.op = "imc_enter"
  /\ last.require_empty
  /\ aborted
  /\ Top >= 1

(* ======================= claims: ThreadPoolWork ======================== *)
InFlight(u) == units[u].req \in {"queued", "running", "finished", "cancelled"}

C6_Safety ==
  \A u \in Units :
    /\ units[u].afters <= units[u].schedules
    /\ units[u].ran => units[u].schedules > 0
    /\ units[u].req \in {"queued", "cancelled"} => ~units[u].ran
    /\ units[u].req \in {"running", "finished"} => units[u].ran
    /\ InFlight(u) => units[u].afters = units[u].schedules - 1
    /\ units[u].req = "idle" => units[u].afters = units[u].schedules
    /\ units[u].afters > 0 =>
         /\ units[u].done_kind \in {"finished", "cancelled"}
         /\ units[u].done_kind = "finished" <=> units[u].status = 0
         /\ units[u].done_kind = "cancelled" <=> units[u].status # 0
         /\ units[u].req = "idle" =>
              (units[u].ran <=> units[u].done_kind = "finished")

\* C6: every ScheduleWork() is answered by exactly one AfterThreadPoolWork:
\* never more completions than schedules, none while the unit is queued or
\* its DoThreadPoolWork runs, status 0 exactly when DoThreadPoolWork ran to
\* its end and non-zero exactly when the unit was cancelled, and once the
\* pool and the loop run, a queued unit's completion is delivered.
C6_ExactlyOnce ==
  /\ []C6_Safety
  /\ \A u \in Units :
       (units[u].req = "queued") ~>
         (units[u].req = "idle" /\ units[u].afters = units[u].schedules)

\* C6 witness: one unit completed with status 0 after its DoThreadPoolWork,
\* another was cancelled and completed with a non-zero status, no
\* DoThreadPoolWork having run for it.
C6_Witness ==
  /\ units[1].afters = 1 /\ units[1].status = 0 /\ units[1].ran
  /\ units[2].afters = 1 /\ units[2].status # 0 /\ ~units[2].ran

\* C7: the counter counts a unit from the increment in ScheduleWork(),
\* before the unit is submitted, up to the decrement in the completion
\* callback, before AfterThreadPoolWork is entered: it equals the number of
\* units in flight plus the one being submitted, and the unit whose
\* AfterThreadPoolWork runs is not among them.
C7_CounterBrackets ==
  /\ request_waiting =
       Cardinality({u \in Units : InFlight(u)}) + (IF sched_pc # 0 THEN 1 ELSE 0)
  /\ sched_pc # 0 => ~InFlight(sched_pc)
  /\ main_in # 0 =>
       (InFlight(main_in) \/ sched_pc = main_in \/
        request_waiting <= Cardinality(Units \ {main_in}))

\* C7 witness: AfterThreadPoolWork of unit 1 runs and has called
\* ScheduleWork() of unit 2, which has incremented and not yet submitted.
C7_Witness ==
  /\ main_in = 1
  /\ units[1].req = "idle"
  /\ sched_pc = 2
  /\ request_waiting = 1

LateStates == {"running", "finished", "idle"}

C8_Inv ==
  /\ cancel_ret.found \in LateStates => cancel_ret.ret # 0
  /\ \A u \in Units :
       /\ units[u].cancel_late => (units[u].req \in LateStates /\ units[u].ran)
       /\ (units[u].cancel_late /\ units[u].req = "idle") =>
            /\ units[u].afters = units[u].schedules
            /\ units[u].status = 0
            /\ units[u].done_kind = "finished"
       /\ units[u].afters <= units[u].schedules

C8_Step ==
  (cancel_ret' # cancel_ret /\ cancel_ret'.found \in LateStates) =>
    /\ cancel_ret'.ret # 0
    /\ request_waiting' = request_waiting
    /\ main_in' = main_in
    /\ \A u \in Units :
         /\ units'[u].req = units[u].req
         /\ units'[u].ran = units[u].ran
         /\ units'[u].afters = units[u].afters
         /\ units'[u].status = units[u].status

\* C8: CancelWork() on a unit that is running, has run, or whose completion
\* has been delivered returns a failure code and changes nothing; the unit's
\* DoThreadPoolWork ends and its completion is delivered once, with the
\* status of work that ran (0).
C8_LateCancel == []C8_Inv /\ [][C8_Step]_vars

\* C8 witness: CancelWork() found the unit running and returned UV_EBUSY;
\* the unit then completed with status 0.
C8_Witness ==
  /\ units[1].cancel_late
  /\ units[1].req = "idle"
  /\ units[1].afters = 1
  /\ units[1].status = 0
  /\ cancel_ret.found = "idle"
  /\ cancel_ret.ret = UV_EBUSY

C9_Step ==
  /\ (\/ request_waiting' # request_waiting
      \/ main_in' # main_in
      \/ sched_pc' # sched_pc
      \/ cancel_ret' # cancel_ret
      \/ \E u \in Units :
           \/ units'[u].afters # units[u].afters
           \/ units'[u].status # units[u].status
           \/ units'[u].schedules # units[u].schedules)
       => actor' = "main"
  /\ (actor' = "worker" /\ units' # units) =>
       \E u \in Units :
         /\ \A v \in Units \ {u} : units'[v] = units[v]
         /\ <<units[u].req, units'[u].req>> \in
              {<<"queued", "running">>, <<"running", "finished">>}
         /\ units'[u] = [units[u] EXCEPT !.req = units'[u].req,
                                         !.ran = units'[u].ran]
  /\ UNCHANGED <<async_ids_stack, scopes, can_call_into_js, aborted>>
       \/ actor' = "main"

\* C9: a worker thread only takes a unit from the queue and runs its
\* DoThreadPoolWork; the counter, the completions and their status, and all
\* environment state change only in steps of the loop thread.
C9_WorkerConfined == [][C9_Step]_vars

\* C9 witness: a worker has just finished DoThreadPoolWork of one unit
\* while two units are counted.
C9_Witness ==
  /\ actor = "worker"
  /\ \E u \in Units : units[u].req = "finished"
  /\ request_waiting = 2

(* ============================ claims: Start ============================ *)
Logged(e) == \E i \in 1..Len(log) : log[i] = e

BootstrapFailed == bootstrap \in {"failed_loaders", "failed_node"}

Count(e) == Cardinality({i \in 1..Len(log) : log[i] = e})

\* Before-exit passes made so far, and how many of them left new work.
Passes == Count("before_exit_callbacks")
HookArms == Count("new_work")

\* The run loop has been entered and left.
PostLoop ==
  /\ Logged("uv_run")
  /\ pc \in {"emit_exit", "stop_js", "cleanup", "at_exit", "final_drain",
              "returned", "done"}

C11_Inv ==
  \A i \in 1..Len(log) :
    /\ log[i] = "before_exit_callbacks" =>
         i >= 3 /\ log[i - 1] = "drain" /\ log[i - 2] = "uv_run"
    /\ log[i] = "emit_beforeExit" =>
         i >= 2 /\ log[i - 1] = "before_exit_callbacks"

C11_Step ==
  /\ Len(log') > Len(log) /\ log'[Len(log) + 1] = "before_exit_callbacks" =>
       pc = "before_exit" /\ ~loop_alive
  /\ pc = "check_more" /\ loop_alive => pc' = "uv_run"
  /\ pc' = "before_exit" => pc = "check_more" /\ ~loop_alive

\* C11: the before-exit hooks and 'beforeExit' run only right after an
\* event-loop run followed by a drain of the platform tasks, with the loop
\* not alive; when the loop is alive after the drain the next step is
\* another event-loop run, never a before-exit pass.
C11_BeforeExitOnlyWhenIdle == []C11_Inv /\ [][C11_Step]_vars

\* A drain left the loop alive, the loop ran again, and a before-exit pass
\* was made later.
C11_Witness ==
  /\ Passes >= 1
  /\ \E i \in 1..(Len(log) - 3) :
       /\ log[i] = "drain" /\ log[i + 1] = "uv_run"
       /\ log[i + 2] = "drain" /\ log[i + 3] = "before_exit_callbacks"

C12_Inv ==
  \A i, j \in 1..Len(log) :
    (i < j /\ log[i] = "before_exit_callbacks"
           /\ log[j] = "before_exit_callbacks") =>
      \E k \in (i + 1)..(j - 1) : log[k] = "new_work"

C12_Step ==
  /\ pc = "recheck" =>
       pc' = IF loop_alive THEN "uv_run" ELSE "emit_exit"
  /\ pc' = "emit_exit" => pc = "recheck" /\ ~loop_alive

\* C12: after a before-exit pass the loop iterates again exactly when the
\* event loop is alive at the re-check; two before-exit passes always have
\* new referenced work left by the hooks between them, and a re-check that
\* finds the loop not alive leads straight to EmitExit.
C12_LoopsIffNewWork == []C12_Inv /\ [][C12_Step]_vars

\* Two before-exit passes have been made and the loop has been left.
C12_Witness == Passes >= 2 /\ pc = "emit_exit"

C13_Inv ==
  /\ Passes <= HookArms + 1
  /\ PostLoop => Passes = HookArms + 1

\* C13: with event-loop runs that return, the run loop is left; when it is
\* left the before-exit passes number one more than the passes whose
\* hooks left new work: one pass if the hooks never do, two if they do
\* so once.
C13_TerminatesAfterExtraPass ==
  []C13_Inv /\ ((pc = "uv_run") ~> (pc = "emit_exit"))

\* The hooks left new work once and Start returned after two passes.
C13_Witness == pc = "done" /\ HookArms = 1 /\ Passes = 2

(* ========================== claims: shutdown =========================== *)
\* Position of the first entry e of the log, 0 if there is none.
First(e) ==
  IF Logged(e) THEN CHOOSE i \in 1..Len(log) :
                      log[i] = e /\ \A j \in 1..(i - 1) : log[j] # e
               ELSE 0

IsPrefix(s, r) == Len(s) <= Len(r) /\ \A i \in 1..Len(s) : s[i] = r[i]

\* What Start does after EmitExit returned, in the order of the code.
ShutdownOrder ==
  <<"run_cleanup", "run_at_exit", "drain", "cancel", "return", "env_destroy",
    "free_isolate_data", "clear_node_isolate", "dispose",
    "unregister_isolate", "free_allocator", "start_return">>

\* The calls logged after EmitExit.
AfterEmitExit == SubSeq(log, First("emit_exit") + 1, Len(log))

\* C14: a run that entered the run loop emits 'exit' exactly once, right
\* after the last before-exit pass of the loop; once EmitExit has returned
\* the environment is marked unable to call into JS before RunCleanup and
\* the at-exit callbacks run, and neither the event loop nor a before-exit
\* pass runs again.
C14_ExitOnceThenNoJs ==
  /\ Count("emit_exit") <= 1
  /\ PostLoop /\ pc # "emit_exit" => Count("emit_exit") = 1
  /\ \A i \in 1..Len(log) :
       log[i] = "emit_exit" =>
         /\ i >= 2 /\ log[i - 1] = "emit_beforeExit"
         /\ \A j \in (i + 1)..Len(log) :
              log[j] \notin {"uv_run", "before_exit_callbacks",
                             "emit_beforeExit", "emit_exit"}
  /\ Logged("run_cleanup") \/ Logged("run_at_exit") =>
       Logged("emit_exit") /\ ~can_call_into_js
  /\ ~Logged("emit_exit") => can_call_into_js

\* Start returned after a loop of two before-exit passes, 'exit', the
\* cleanup and the at-exit callbacks.
C14_Witness ==
  /\ pc = "done" /\ Passes >= 2
  /\ Logged("emit_exit") /\ Logged("run_cleanup") /\ Logged("run_at_exit")
  /\ ~can_call_into_js

\* C15: the value Start returns is process.exitCode as the 'exit' handlers
\* left it: the value a handler stored if one stored a value, otherwise the
\* value EmitExit read before emitting.
C15_ReturnsReloadedExitCode ==
  Logged("emit_exit") =>
    /\ emit.handler_sets => ret = emit.written
    /\ ~emit.handler_sets => ret = emit.code

\* The stored exit code was 0, a handler stored 7, and Start returned 7.
C15_Witness ==
  /\ pc = "done" /\ Logged("emit_exit")
  /\ emit.code = 0 /\ emit.handler_sets /\ emit.written = 7 /\ ret = 7

\* C16: after the exit notification Start runs the environment cleanup,
\* then the at-exit callbacks, then drains the platform tasks, then cancels
\* the pending delayed tasks, and only then returns the exit code.
C16_ShutdownOrder ==
  Logged("emit_exit") => IsPrefix(AfterEmitExit, ShutdownOrder)

\* Start has returned after the whole shutdown sequence.
C16_Witness ==
  /\ pc = "returned" /\ Logged("emit_exit")
  /\ Len(AfterEmitExit) = 6 /\ AfterEmitExit[4] = "cancel"

(* =================== claims: startup failure, teardown ================= *)
\* C17: when NewIsolate returns null, Start returns 12 at once: no isolate
\* is registered as node_isolate or on the platform, no Environment is
\* created, no cleanup hook and no at-exit callback runs, the run loop is
\* not entered and 'exit' is not emitted.
C17_NullIsolateReturns12 ==
  Logged("new_isolate_null") =>
    /\ pc = "done" /\ ret = 12 /\ ~aborted
    /\ node_isolate = "null"
    /\ log = <<"create_allocator", "new_isolate_null", "free_allocator",
               "start_return">>
    /\ can_call_into_js /\ async_ids_stack = <<>> /\ emit = NoEmit

\* NewIsolate returned null and Start has returned.
C17_Witness == Logged("new_isolate_null") /\ pc = "done" /\ ret = 12

\* Startup failed internally: no isolate, or no context.
StartupFailed == Logged("new_isolate_null") \/ Logged("new_context_empty")

\* C18: Start produces 12 whenever the isolate cannot be allocated or the
\* context cannot be bootstrapped, and in every other run it returns the
\* environment's exit code, as EmitExit read it.
C18_SentinelIffStartupFailure ==
  /\ StartupFailed => ~aborted /\ (pc = "done" => ret = 12)
  /\ ~StartupFailed /\ pc = "done" =>
       Logged("emit_exit") /\ ret = exit_code

\* C19: wherever an Environment is destroyed, RunCleanup() has been run on
\* it before.
C19_CleanupBeforeDestroy ==
  \A i \in 1..Len(log) :
    log[i] = "env_destroy" => \E j \in 1..(i - 1) : log[j] = "run_cleanup"

\* How often hook h occurs in the sequence s of hooks run.
Runs(s, h) == Cardinality({i \in 1..Len(s) : s[i] = h})

\* C20: a RunCleanup() that directly follows another runs no hook and
\* leaves no hook registered, and over the two calls every hook that was
\* registered has run exactly once, no other hook at all.
C20_RunCleanupIdempotent ==
  cleanup.in_a_row =>
    /\ cleanup.last.before = <<>> /\ cleanup.last.ran = <<>>
    /\ ~cleanup.touched => cleanup_hooks = <<>>
    /\ \A h \in Hooks :
         Runs(cleanup.prev.ran \o cleanup.last.ran, h) =
           IF Registered(cleanup.prev.before, h) THEN 1 ELSE 0

\* Two hooks were registered, RunCleanup() ran them, and FreeEnvironment
\* called RunCleanup() again.
C20_Witness ==
  /\ cleanup.in_a_row /\ Len(cleanup.prev.ran) >= 2
  /\ env_state = "deleted"

C21_Inv ==
  /\ cleanup.calls > 0 =>
       /\ cleanup.last.ran = Reverse(cleanup.last.before)
       /\ \A h \in Hooks :
            Runs(cleanup.last.ran, h) =
              IF Registered(cleanup.last.before, h) THEN 1 ELSE 0
       /\ ~cleanup.touched =>
            /\ cleanup_hooks = <<>>
            /\ \A h \in cleanup.removed : Runs(cleanup.last.ran, h) = 0
  /\ \A h \in cleanup.removed : ~Registered(cleanup_hooks, h)
  /\ env_state = "live" /\ ~aborted =>
       /\ ENABLED FreeEnvironment
       /\ cleanup.calls < MaxCleanups => ENABLED EnvironmentRunCleanup

\* A step that is a RunCleanup() call.
C21_Step ==
  cleanup'.calls > cleanup.calls =>
    /\ cleanup'.last.before = cleanup_hooks
    /\ cleanup'.last.ran = Reverse(cleanup_hooks)
    /\ \A h \in cleanup.removed : Runs(cleanup'.last.ran, h) = 0
    /\ cleanup_hooks' = <<>>

\* C21: RunCleanup() runs exactly the hooks registered when it is called,
\* each once, the last registered first; a hook removed before the call,
\* and not registered again, does not run; and RunCleanup() can be called,
\* directly or through FreeEnvironment, whether the bootstrap of the
\* Environment has not run, has succeeded or has failed.
C21_HooksRunOnceInReverse == []C21_Inv /\ [][C21_Step]_vars

\* After a failed bootstrap, RunCleanup() ran two hooks, the later
\* registered first, and skipped a hook that had been removed.
C21_Witness ==
  /\ BootstrapFailed
  /\ cleanup.calls > 0
  /\ Len(cleanup.last.ran) >= 2
  /\ cleanup.last.ran[1] = cleanup.last.before[Len(cleanup.last.before)]
  /\ ~cleanup.touched /\ cleanup.removed # {}

(* ==================== claims: the current isolate ====================== *)
\* The threads whose isolate ought to be the current one: between their
\* write of node_isolate and their clearing of it.
Current == {t \in Threads : tpc[t] \in {"run", "lock_clear", "check_clear"}}

C22_Inv ==
  /\ Cardinality(Current) <= 1
  /\ \A t \in Threads : node_isolate = IsolateOf(t) <=> t \in Current
  /\ \A t \in Threads : mutex = t <=> tpc[t] \in {"check_set", "check_clear"}

C22_Step ==
  /\ node_isolate' # node_isolate =>
       /\ mutex \in Threads
       /\ \/ node_isolate = "null" /\ node_isolate' = IsolateOf(mutex)
          \/ node_isolate = IsolateOf(mutex) /\ node_isolate' = "null"
  /\ \A t \in Threads :
       tpc[t] = "check_set" /\ node_isolate # "null" =>
         /\ node_isolate' = node_isolate
         /\ tpc'[t] = "check_set"
         /\ (mutex' # mutex \/ aborted' # aborted) => aborted'

\* C22: at most one isolate is node_isolate at any time; node_isolate is
\* written only by the holder of node_isolate_mutex and only over null,
\* cleared only by the holder and only when it holds the isolate of that
\* very Start call; a Start call that finds node_isolate set fails its
\* CHECK_NULL and aborts without writing.
C22_OneCurrentIsolate == []C22_Inv /\ [][C22_Step]_vars

\* Two Start calls overlapped: one was running, the other failed CHECK_NULL.
C22_Witness ==
  /\ aborted
  /\ \E t, u \in Threads :
       t # u /\ tpc[t] = "check_set" /\ mutex = t /\ tpc[u] = "run"

(* ================== claims: lifetimes of isolate and data ============== *)
\* Call a is logged before call b, whenever b is logged at all.
Before(a, b) == Logged(b) => Logged(a) /\ First(a) < First(b)

\* Every entry a of the log stands before the first entry b.
AllBefore(a, b) ==
  Logged(b) => \A i \in 1..Len(log) : log[i] = a => i < First(b)

\* C23: the isolate is registered with the platform before it is
\* initialized; it is disposed only after the per-isolate Start, and with
\* it the run loop, has returned and node_isolate has been cleared; it is
\* disposed once, exactly once in a run that returns, and it is
\* unregistered from the platform only after that.
C23_IsolateLifecycleOrder ==
  /\ Before("register_isolate", "initialize_isolate")
  /\ Before("initialize_isolate", "set_node_isolate")
  /\ Count("dispose") <= 1 /\ Count("unregister_isolate") <= 1
  /\ pc = "done" /\ Logged("register_isolate") => Count("dispose") = 1
  /\ Before("return", "dispose")
  /\ AllBefore("uv_run", "dispose") /\ AllBefore("emit_exit", "dispose")
  /\ Before("clear_node_isolate", "dispose")
  /\ Logged("dispose") => node_isolate = "null"
  /\ Before("dispose", "unregister_isolate")
  /\ Logged("set_node_isolate") /\ ~Logged("clear_node_isolate") =>
       node_isolate = "isolate"

\* A run that went through the run loop has disposed and unregistered its
\* isolate.
C23_Witness ==
  /\ pc = "done" /\ Logged("uv_run") /\ Logged("emit_exit")
  /\ Logged("dispose") /\ Logged("unregister_isolate")

\* C24: the IsolateData is created before the Environment built on it and
\* freed after that Environment is destroyed; it is freed before the
\* isolate is disposed and before the allocator is freed.
C24_IsolateDataOutlivesEnv ==
  /\ Before("create_allocator", "create_isolate_data")
  /\ Before("create_isolate_data", "env_create")
  /\ Before("env_create", "env_destroy")
  /\ AllBefore("env_destroy", "free_isolate_data")
  /\ Logged("free_isolate_data") /\ Logged("env_create") =>
       Logged("env_destroy")
  /\ Before("free_isolate_data", "dispose")
  /\ Logged("create_isolate_data") =>
       Before("free_isolate_data", "free_allocator")
  /\ Count("env_create") <= 1 /\ Count("free_isolate_data") <= 1

\* A run created its Environment, destroyed it after the shutdown, then
\* freed the IsolateData, disposed the isolate and freed the allocator.
C24_Witness ==
  /\ pc = "done" /\ Logged("run_cleanup") /\ Logged("env_destroy")
  /\ Logged("free_isolate_data") /\ Logged("dispose")
  /\ log[Len(log) - 1] = "free_allocator"

(* ===================== claims: Environment::Start ====================== *)
\* The calls that run managed code, or that need the started Environment.
AfterStartOnly ==
  {"start_inspector", "bootstrap_loaders", "bootstrap_node",
   "emit_beforeExit", "emit_exit"}

\* C25: on both entry paths an Environment is started exactly once, right
\* after its construction, and before the inspector is started and before
\* any bootstrapper or event handler runs in it.
C25_EnvStartedOnceFirst ==
  /\ Count("env_create") <= 1
  /\ Count("env_start") = Count("env_create")
  /\ \A i \in 1..Len(log) :
       /\ log[i] = "env_create" => i < Len(log) /\ log[i + 1] = "env_start"
       /\ log[i] \in AfterStartOnly =>
            Logged("env_start") /\ First("env_start") < i
  /\ env_state # "none" => Logged("env_start")

\* An embedder created an Environment and bootstrapped it.
C25_Witness ==
  /\ env_state = "live" /\ bootstrap = "ok"
  /\ Logged("env_start") /\ Logged("bootstrap_node")

(* ================== claims: failures and their outcome ================= *)
\* C26: a run whose bootstrap failed returns a non-zero exit code, and
\* returns it only after the cleanup hooks have run; a failed CHECK ends
\* the process at once: no cleanup hook and no at-exit callback has run or
\* runs, and nothing else happens after it.
C26_FailureExitsNonZeroAfterCleanup ==
  /\ BootstrapFailed /\ pc \in {"returned", "done"} =>
       /\ ret # 0
       /\ Before("run_cleanup", "return")
  /\ aborted => ~Logged("run_cleanup") /\ ~Logged("run_at_exit")

\* Start is past its bootstrap block.
PastBootstrap ==
  pc \in {"uv_run", "drain", "check_more", "before_exit", "recheck",
          "emit_exit", "stop_js", "cleanup", "at_exit", "final_drain"}
  \/ (pc \in {"returned", "done"} /\ bootstrap # "pending")

\* C27: when LoadEnvironment returns after a failed bootstrapper the
\* async-id stack is empty, when it returns after a successful bootstrap
\* the stack holds the pair (1, 0) alone; the pop of id 1 that follows never
\* aborts, and past the bootstrap block the stack is empty either way.
C27_StackEmptyAfterBootstrap ==
  /\ pc = "bootstrap_pop" =>
       /\ ~aborted
       /\ BootstrapFailed => async_ids_stack = <<>>
       /\ bootstrap = "ok" => async_ids_stack = <<<<1, 0>>>>
  /\ PastBootstrap => async_ids_stack = <<>> /\ ~aborted
  /\ aborted => pc = "new_context"

\* The node bootstrapper failed and Start went on past the pop of id 1.
C27_Witness ==
  /\ bootstrap = "failed_node" /\ pc = "uv_run"
  /\ async_ids_stack = <<>> /\ ~aborted

(* ================= claims: the run loop, continued ===================== *)
\* C28: the loop counts no passes: as long as the hooks of every
\* before-exit pass made so far have left new referenced work, however
\* many passes that is, the loop has not been left and 'exit' has not
\* been emitted.
C28_NoBoundOnPasses ==
  HookArms = Passes =>
    /\ ~Logged("emit_exit")
    /\ pc \notin {"emit_exit", "stop_js", "cleanup", "at_exit", "final_drain"}
    /\ pc \in {"returned", "done"} => ~Logged("uv_run")

\* Every pass so far left new work, as many passes as new work can appear,
\* and the loop runs on.
C28_Witness ==
  /\ Passes = MaxArms /\ HookArms = MaxArms
  /\ pc = "uv_run" /\ loop_alive

\* C29: RunBeforeExit runs the native before-exit callbacks first and emits
\* 'beforeExit' only if the loop is still not alive afterwards. In the log,
\* 'beforeExit' is emitted only directly after the native callbacks of its
\* pass; when a native callback left referenced work, the loop is alive at
\* the re-check and until uv_run is entered again, nothing is emitted in that
\* pass and the next call is uv_run.
NativeArmedAt(i) ==
  /\ i + 1 <= Len(log)
  /\ log[i] = "before_exit_callbacks"
  /\ log[i + 1] = "new_work"

C29_BeforeExitOnlyIfLoopDead ==
  /\ \A i \in 1..Len(log) :
       /\ log[i] = "emit_beforeExit" =>
            i > 1 /\ log[i - 1] = "before_exit_callbacks"
       /\ log[i] = "before_exit_callbacks" /\ i < Len(log) =>
            log[i + 1] \in {"new_work", "emit_beforeExit"}
       /\ NativeArmedAt(i) /\ i + 2 <= Len(log) => log[i + 2] = "uv_run"
  /\ Len(log) >= 2 /\ NativeArmedAt(Len(log) - 1) =>
       pc \in {"recheck", "uv_run"} /\ loop_alive /\ ~aborted

C29_Witness ==
  \E i \in 1..Len(log) :
    NativeArmedAt(i) /\ i + 2 <= Len(log) /\ log[i + 2] = "uv_run"

(* ------------------- claims: InternalMakeCallback, continued ----------- *)
\* A callback is running in frame i: InternalMakeCallback has called it and
\* it has not returned yet.
CallbackRunning(i) == i \in 1..Top /\ hist[i].owner = "imc"

\* C30: InternalMakeCallback calls the callback at most once, and not at all
\* when its scope is failed after construction; it returns a value only if
\* the callback returned one and the Close() after it did not fail the
\* scope; when the callback returns empty it marks the scope failed and
\* returns empty without a Close() call of its own.
C30_Inv ==
  /\ \A i \in 1..Top :
       CallbackRunning(i) =>
         ~scopes[i].failed_ /\ ~scopes[i].closed_ /\ ~hist[i].was_failed
  /\ last.op = "imc_enter" /\ ~aborted /\ last.h.was_failed =>
       last.ret = "empty"
  /\ last.op = "imc_return" /\ ~aborted =>
       /\ last.ret \in {"value", "empty"}
       /\ last.ret = "value" <=> ~last.h.marked /\ ~Failed(last.scope)
       /\ last.ret = "value" => last.closes = 1
       /\ last.h.marked =>
            /\ last.ret = "empty"
            /\ Failed(last.scope)
            /\ last.closes = 0
            /\ last.h.flushes = 0

\* A step that ends in an entry to (a return from) InternalMakeCallback
\* starts at most one callback (none): every such step sets last.op.
C30_Step ==
  /\ last'.op = "imc_enter" =>
       /\ Len(scopes') <= Len(scopes) + 1
       /\ ~can_call_into_js => scopes' = scopes
  /\ last'.op = "imc_return" => Len(scopes') <= Len(scopes)

C30_MakeCallbackResult == []C30_Inv /\ [][C30_Step]_vars

\* C30 witness: the callback returned a value, InternalMakeCallback called
\* Close(), the flush in it threw, and the call returned empty.
C30_Witness ==
  /\ ~aborted
  /\ last.op = "imc_return"
  /\ ~last.h.marked
  /\ last.closes = 1
  /\ Failed(last.scope)
  /\ last.ret = "empty"
  /\ last.h.flushes = 1

(* ------------------------ claims: public MakeCallback ------------------ *)
\* InternalMakeCallback has just returned to the public MakeCallback.
MakeCallbackReturned ==
  /\ ~aborted
  /\ last.op \in {"imc_enter", "imc_return"}
  /\ last.ret \in {"empty", "value"}

\* C31: the public MakeCallback returns empty only when the call failed
\* inside another callback scope; a call that failed at depth 0 returns
\* undefined, and a call that did not fail returns the callback's value.
C31_EmptyOnlyWhenNested ==
  MakeCallbackReturned =>
    /\ last.pub = "empty" <=> (last.ret = "empty" /\ Top > 0)
    /\ last.pub = "undefined" <=> (last.ret = "empty" /\ Top = 0)
    /\ last.pub = "value" <=> last.ret = "value"

\* C31 witness: a callback returned empty while another scope was live, and
\* the public MakeCallback returned empty.
C31_Witness ==
  /\ MakeCallbackReturned
  /\ last.op = "imc_return"
  /\ last.h.marked
  /\ Top > 0
  /\ last.pub = "empty"

(* ----------------------------- claims: EmitExit ------------------------ *)
\* C32: EmitExit sets process._exiting before any 'exit' handler runs; the
\* code the handlers get as argument is the one read before the emission,
\* the code EmitExit returns is the one read after the handlers ran.
C32_ExitingSetBeforeHandlers ==
  /\ ~Logged("emit_exit") => ~emit.exiting
  /\ Logged("emit_exit") =>
       /\ emit.exiting /\ emit.seen
       /\ emit.arg = emit.code
       /\ ret = IF emit.handler_sets THEN emit.written ELSE emit.code

\* C32 witness: the handlers were called with 0 while process._exiting was
\* already true, one of them stored 7, and EmitExit returned 7.
C32_Witness ==
  /\ Logged("emit_exit")
  /\ emit.seen /\ emit.arg = 0
  /\ emit.handler_sets /\ emit.written = 7 /\ ret = 7

(* ----------------------- claims: ThreadPoolWork, continued ------------- *)
\* How many ScheduleWork() calls on unit u have not been answered by the
\* completion callback yet, the call under way included.
Outstanding(u) ==
  units[u].schedules + (IF sched_pc = u THEN 1 ELSE 0) - units[u].afters

RECURSIVE SumOutstanding(_)
SumOutstanding(S) ==
  IF S = {} THEN 0
  ELSE LET u == CHOOSE x \in S : TRUE
       IN Outstanding(u) + SumOutstanding(S \ {u})

\* C33: the outstanding-work counter equals the number of units that have
\* been scheduled and whose completion callback has not run yet; it is never
\* negative, and it is back at its initial value, 0, once every scheduled
\* unit has completed.
C33_CounterCountsOutstanding ==
  /\ request_waiting = SumOutstanding(Units)
  /\ \A u \in Units : Outstanding(u) \in {0, 1}
  /\ request_waiting >= 0
  /\ (sched_pc = 0 /\ \A u \in Units : units[u].afters = units[u].schedules)
       => request_waiting = 0

\* C33 witness: every unit has been scheduled and has completed, one of
\* them after a cancellation, and the counter is 0 again.
C33_Witness ==
  /\ sched_pc = 0
  /\ \A u \in Units : units[u].schedules = 1 /\ units[u].afters = 1
  /\ \E u \in Units : units[u].done_kind = "cancelled"
  /\ request_waiting = 0

\* A unit whose last submission has been answered and not followed by a
\* new ScheduleWork().
Answered(u) == units[u].req = "idle" /\ units[u].afters = units[u].schedules

\* CancelWork() has been called on unit u since its last submission, and
\* the completion is still to come.
CancelPending(u) ==
  \/ units[u].req = "cancelled"
  \/ units[u].cancel_late /\ units[u].req \in {"running", "finished"}

C34_Inv ==
  \A u \in Units :
    /\ units[u].req = "cancelled" => ~units[u].ran
    /\ (Answered(u) /\ units[u].done_kind = "cancelled") =>
         ~units[u].ran /\ units[u].status < 0
    /\ (Answered(u) /\ units[u].done_kind = "finished") =>
         units[u].ran /\ units[u].status = 0

C34_Step ==
  \A u \in Units :
    /\ CancelWorkCall(u) =>
         /\ request_waiting' = request_waiting
         /\ units'[u].afters = units[u].afters
         /\ cancel_ret'.ret = 0 =>
              /\ units[u].req \in {"queued", "cancelled"}
              /\ units'[u].req = "cancelled"
              /\ ~units'[u].ran
         /\ (cancel_ret'.ret # 0 /\ units[u].req # "idle") =>
              /\ units[u].req \in {"running", "finished"}
              /\ units'[u].req = units[u].req
              /\ units'[u].ran
    /\ (units'[u].ran /\ ~units[u].ran) => units[u].req = "queued"
    /\ units[u].req = "cancelled" => units'[u].req \in {"cancelled", "idle"}
    /\ (units[u].cancel_late /\ units[u].req \in {"running", "finished"}) =>
         /\ units'[u].cancel_late
         /\ units'[u].req \in {"running", "finished", "idle"}
         /\ units'[u].req = "idle" =>
              /\ units'[u].afters = units[u].afters + 1
              /\ units'[u].status = 0
    /\ (units[u].req = "cancelled" /\ units'[u].req = "idle") =>
         /\ actor' = "main"
         /\ main_in' = u
         /\ units'[u].afters = units[u].afters + 1
         /\ units'[u].status < 0
         /\ request_waiting' = request_waiting - 1

\* C34: whatever the interleaving of CancelWork() with the worker taking the
\* unit: a CancelWork() that returns 0 found the unit still queued, its
\* DoThreadPoolWork is never entered, and its AfterThreadPoolWork is still
\* called once, on the loop thread, with a negative status, the counter
\* being decremented then; a CancelWork() that returns an error on a unit in
\* flight leaves it alone, its DoThreadPoolWork runs and its completion is
\* delivered with status 0.
C34_CancelRace ==
  /\ []C34_Inv
  /\ [][C34_Step]_vars
  /\ \A u \in Units : CancelPending(u) ~> Answered(u)

\* C34 witness: one unit was cancelled in the queue and completed with
\* UV_ECANCELED without its DoThreadPoolWork; for the other the worker was
\* first, CancelWork() returned UV_EBUSY, and it completed with status 0.
C34_Witness ==
  /\ Answered(1) /\ units[1].done_kind = "cancelled"
  /\ ~units[1].ran /\ units[1].status = UV_ECANCELED
  /\ Answered(2) /\ units[2].done_kind = "finished"
  /\ units[2].cancel_late /\ units[2].ran /\ units[2].status = 0
  /\ request_waiting = 0

(* ------------------------ claims: platform and tracing ----------------- *)
\* C35: the tracing agent is created and started before the platform is
\* created; the platform is initialized before the engine; Dispose shuts
\* the platform down and deletes it before it destroys the tracing agent;
\* the platform is disposed only after the isolate has been disposed and
\* V8::Dispose has run.
C35_PlatformTracingOrder ==
  /\ Before("new_tracing_agent", "start_tracing_agent")
  /\ Before("start_tracing_agent", "new_platform")
  /\ Before("new_platform", "initialize_platform")
  /\ Before("initialize_platform", "v8_initialize")
  /\ Before("v8_initialize", "create_allocator")
  /\ Before("platform_shutdown", "delete_platform")
  /\ Before("delete_platform", "destroy_tracing_agent")
  /\ Before("v8_dispose", "platform_shutdown")
  /\ AllBefore("dispose", "v8_dispose")
  /\ AllBefore("unregister_isolate", "platform_shutdown")
  /\ Logged("platform_shutdown") /\ Logged("register_isolate") =>
       Logged("dispose")
  /\ Before("new_platform", "platform_shutdown")
  /\ \A e \in {"new_tracing_agent", "new_platform", "v8_initialize",
                "v8_dispose", "delete_platform", "destroy_tracing_agent"} :
       Count(e) <= 1
  /\ pc = "exited" =>
       Logged("destroy_tracing_agent") /\ log[Len(log)] = "process_return"

\* C35 witness: a whole process run, with an isolate that ran the loop and
\* was disposed before V8::Dispose and the platform's shutdown.
C35_Witness ==
  /\ pc = "exited"
  /\ Logged("uv_run") /\ Logged("dispose")
  /\ First("dispose") < First("v8_dispose")
  /\ First("v8_dispose") < First("platform_shutdown")
  /\ First("delete_platform") < First("destroy_tracing_agent")

(* ---------------------------- claims: signals -------------------------- *)
C36_Inv ==
  /\ \A e \in Events :
       /\ handles[e] <= 1
       /\ handles[e] = (IF e \in signalWraps THEN 1 ELSE 0)
  /\ signals_setup = "no" => signalWraps = {}
  /\ signals_setup = "done" =>
       \A e \in Events :
         e \in signalWraps <=> (isSignal(e) /\ listeners[e] > 0)
  /\ (js.op = "on" /\ js.threw # "none") =>
       /\ js.arg \notin signalWraps
       /\ listeners[js.arg] = 0

C36_Step ==
  signals_setup = "done" =>
    \A e \in constants :
      /\ (listeners[e] = 0 /\ listeners'[e] > 0) =>
           (handles'[e] = handles[e] + 1 /\ e \in signalWraps')
      /\ (listeners[e] > 0 /\ listeners'[e] = 0) =>
           (handles'[e] = handles[e] - 1 /\ e \notin signalWraps')
      /\ (listeners[e] > 0 /\ listeners'[e] > 0) => handles'[e] = handles[e]
      /\ (js'.op = "on" /\ js'.arg = e /\ js'.threw # "none") =>
           /\ listeners' = listeners
           /\ handles' = handles
           /\ signalWraps' = signalWraps

CredentialSetters == IdSetters \cup {"initgroups", "setgroups"}

C37_Inv ==
  js.op \in CredentialSetters =>
    /\ js.bad => (js.threw \in ValidationErrors /\ js.native_calls = 0)
    /\ js.threw \in ValidationErrors => js.native_calls = 0
    /\ js.native_calls = 1 => ~js.bad

C37_Step ==
  (js'.op \in CredentialSetters /\ (js'.bad \/ js'.threw \in ValidationErrors))
    => creds' = creds

\* C37: a credential setter called with an argument, or an element of the
\* groups array, that is neither a uint32 number nor a string throws a
\* validation error without calling the native function, and leaves the
\* process credentials as they were.
C37_ValidatedBeforeNative == []C37_Inv /\ [][C37_Step]_vars

\* C37 witness: setuid had set the uid, and a later setter call was
\* rejected for a number that is not a uint32, the native function not
\* having been called.
C37_Witness ==
  /\ creds.uid = "0"
  /\ js.op \in CredentialSetters
  /\ js.bad /\ js.threw = "ERR_OUT_OF_RANGE"
  /\ js.native_calls = 0

(* ----------------------------- claims: umask --------------------------- *)
C38_Step ==
  js'.op = "umask" =>
    /\ js'.arg = "undefined" =>
         /\ js'.threw = "none" /\ js'.validated = 0 /\ js'.native_calls = 1
         /\ js'.returned = mask
         /\ mask' = mask
    /\ (js'.arg # "undefined" /\ js'.threw = "none") =>
         /\ js'.validated = 1 /\ js'.native_calls = 1
         /\ js'.returned = mask
         /\ mask' = js'.value
    /\ js'.threw # "none" =>
         /\ js'.arg # "undefined" /\ js'.validated = 1
         /\ js'.native_calls = 0
         /\ mask' = mask

RECURSIVE Column(_, _, _, _)
Column(q, r, k, i) ==
  IF i > 8
    THEN IF k < 4 THEN r[k + 1] ELSE 0
    ELSE (IF k - (i - 1) \in 0..3
            THEN q[i] * ToUint64(NANOS_PER_SEC)[k - (i - 1) + 1]
            ELSE 0)
           + Column(q, r, k, i + 1)

\* q * NANOS_PER_SEC + r for a 64-bit q and a 32-bit r, as 12 bytes.
RECURSIVE MulAdd(_, _, _, _)
MulAdd(q, r, k, carry) ==
  IF k = 12
    THEN IF carry = 0 THEN <<>> ELSE <<carry>>
    ELSE LET c == Column(q, r, k, 1) + carry
         IN <<c % 256>> \o MulAdd(q, r, k + 1, c \div 256)

\* A uint32_t is below NANOS_PER_SEC.
BelowNanosPerSec(r) ==
  /\ r[4] < 64
  /\ r[1] + 256 * r[2] + 65536 * r[3] + 16777216 * r[4] < NANOS_PER_SEC

\* C39: after Hrtime, with q = fields[0] * 2^32 + fields[1] and
\* r = fields[2]: q * 10^9 + r = t and r < 10^9, that is q = floor(t / 10^9)
\* and r = t mod 10^9; and each of the three values computed in 64 bits is
\* the stored 32-bit field widened with zeros, so that no store truncated.
C39_HrtimeLossless ==
  hr.called =>
    /\ MulAdd(hr.fields[2] \o hr.fields[1], hr.fields[3], 0, 0)
         = hr.t \o Zero32
    /\ BelowNanosPerSec(hr.fields[3])
    /\ \A k \in 1..3 : hr.values[k] = hr.fields[k] \o Zero32

\* C39 witness: Hrtime has stored t = 2^64 - 1, as 4 * 2^32 + 1266874889
\* seconds and 709551615 nanoseconds.
C39_Witness ==
  /\ hr.called
  /\ hr.t = Complement(Zero64)
  /\ hr.fields[1] = <<4, 0, 0, 0>>
  /\ hr.fields[2] = Store32(ToUint64(1266874889))
  /\ hr.fields[3] = Store32(ToUint64(709551615))

====
